---- MODULE Spec2Model ----
(***************************************************************************)
(* Verification model of linuxblaster_control.                             *)
(*                                                                         *)
(* Two layers of the repository are modelled:                              *)
(*   - the managed engine of src/src/lib.rs (BlasterXG6: FEATURES, the     *)
(*     cache `features`, set_feature, set_slider, create_payload) under    *)
(*     the specification Spec;                                             *)
(*   - the per-feature device I/O of src/src/features.rs (Feature, the     *)
(*     getters/setters, read_packet, read_ack) under SpecIO (one caller)   *)
(*     and SpecConc (two callers sharing DEVICE_CONNECTION).               *)
(*                                                                         *)
(* f32 values are modelled in fixed point, in hundredths: 1.0 is 100,      *)
(* 3.0 is 300, 100.0 is 10000.  NaN is the value NaN below, which no      *)
(* comparison of the model treats as equal to a number.                    *)
(***************************************************************************)
EXTENDS Integers, Sequences, FiniteSets, TLC

VARIABLES
    features,   \* lib.rs BlasterXG6.features: name -> FeatureType
    sent,       \* lib.rs: packets accepted by connection.write in the last call
    last,       \* lib.rs: the last managed call, its inputs and its result
    values,     \* features.rs Feature.value of every Feature: FeatureId -> f32
    th,         \* features.rs: each caller's position in a getter or setter
    panic,      \* "none", or why the process has terminated
    obs,        \* history of caller 1's current device operation (SpecIO)
    lock,       \* features.rs: each Mutex -> the caller holding its guard, 0 if free
    hid,        \* the device behind DEVICE_CONNECTION and its queue of input reports
    reg,        \* the last query of a registry: the pair asked about and the answers
    wire,       \* the last packet built byte by byte, and what was read back for it
    cap         \* sniffer: the captured block being decoded, and its decoded form

engineVars == <<features, sent, last>>
ioVars == <<values, th, panic, obs, lock, hid>>
pureVars == <<reg, wire, cap>>
vars == <<features, sent, last, values, th, panic, obs, lock, hid, reg, wire, cap>>

\* ------------------------------------------------------------------------
\* lib.rs: the registry FEATURES

Feat(name, fmt, id, kind, deps) ==
    [name |-> name, fmt |-> fmt, id |-> id, kind |-> kind, dependencies |-> deps]

FEATURES == <<
    Feat("SBX",                  "Global", 1,  "Toggle", <<>>),
    Feat("Scout Mode",           "Global", 2,  "Toggle", <<>>),
    Feat("Surround",             "SBX",    0,  "Toggle", <<"SBX">>),
    Feat("Surround Slider",      "SBX",    1,  "Slider", <<"SBX", "Surround">>),
    Feat("Dialog+",              "SBX",    2,  "Toggle", <<"SBX">>),
    Feat("Dialog+ Slider",       "SBX",    3,  "Slider", <<"SBX", "Dialog+">>),
    Feat("Smart Volume",         "SBX",    4,  "Toggle", <<"SBX">>),
    Feat("Smart Volume Slider",  "SBX",    5,  "Slider", <<"SBX", "Smart Volume">>),
    Feat("Smart Volume Special", "SBX",    6,  "Slider", <<"SBX", "Smart Volume">>),
    Feat("Crystalizer",          "SBX",    7,  "Toggle", <<"SBX">>),
    Feat("Crystalizer Slider",   "SBX",    8,  "Slider", <<"SBX", "Crystalizer">>),
    Feat("Equalizer",            "SBX",    9,  "Toggle", <<"SBX">>),
    Feat("EQ Pre-Amp",           "SBX",    10, "Slider", <<"SBX", "Equalizer">>),
    Feat("EQ 31Hz",              "SBX",    11, "Slider", <<"SBX", "Equalizer">>),
    Feat("EQ 62Hz",              "SBX",    12, "Slider", <<"SBX", "Equalizer">>),
    Feat("EQ 125Hz",             "SBX",    13, "Slider", <<"SBX", "Equalizer">>),
    Feat("EQ 250Hz",             "SBX",    14, "Slider", <<"SBX", "Equalizer">>),
    Feat("EQ 500Hz",             "SBX",    15, "Slider", <<"SBX", "Equalizer">>),
    Feat("EQ 1kHz",              "SBX",    16, "Slider", <<"SBX", "Equalizer">>),
    Feat("EQ 2kHz",              "SBX",    17, "Slider", <<"SBX", "Equalizer">>),
    Feat("EQ 4kHz",              "SBX",    18, "Slider", <<"SBX", "Equalizer">>),
    Feat("EQ 8kHz",              "SBX",    19, "Slider", <<"SBX", "Equalizer">>),
    Feat("EQ 16kHz",             "SBX",    20, "Slider", <<"SBX", "Equalizer">>),
    Feat("Bass",                 "SBX",    24, "Toggle", <<"SBX">>),
    Feat("Bass Slider",          "SBX",    25, "Slider", <<"SBX", "Bass">>) >>

Names == {FEATURES[i].name : i \in 1..Len(FEATURES)}

\* a variant of the lookup in which the master toggle requires Scout Mode
Entry_deeper(name) ==
    LET e == FEATURES[CHOOSE i \in 1..Len(FEATURES) : FEATURES[i].name = name]
    IN  IF name = "SBX" THEN [e EXCEPT !.dependencies = <<"Scout Mode">>] ELSE e

Entry(name) == FEATURES[CHOOSE i \in 1..Len(FEATURES) : FEATURES[i].name = name]

\* FeatureType::Toggle(bool) / FeatureType::Slider(f32)
Toggle(b) == [t |-> "Toggle", v |-> b]
Slider(x) == [t |-> "Slider", v |-> x]

\* FEATURES.to_vec(): every toggle false, every slider 0.0
InitialFeatures ==
    [n \in Names |-> IF Entry(n).kind = "Toggle" THEN Toggle(FALSE) ELSE Slider(0)]

\* FeatureType::as_bool: Some(v) for a toggle, None for a slider
as_bool(ft) == IF ft.t = "Toggle" THEN IF ft.v THEN "SomeTrue" ELSE "SomeFalse" ELSE "None"

RECURSIVE SeqContains(_, _)
SeqContains(s, x) ==
    IF s = <<>> THEN FALSE ELSE IF Head(s) = x THEN TRUE ELSE SeqContains(Tail(s), x)

\* BlasterXG6::get_dependents: registry order, the features whose dependencies name it
RECURSIVE DependentsFrom(_, _)
DependentsFrom(feature, i) ==
    IF i > Len(FEATURES) THEN <<>>
    ELSE IF SeqContains(FEATURES[i].dependencies, feature)
         THEN <<FEATURES[i].name>> \o DependentsFrom(feature, i + 1)
         ELSE DependentsFrom(feature, i + 1)

get_dependents(feature) == DependentsFrom(feature, 1)

\* ------------------------------------------------------------------------
\* lib.rs: create_payload

\* the EQ sliders 0x0a..=0x14 carry raw values, everything else value / 100.0
EqIdLow == 10
EqIdHigh == 20
Percent == 100

effective_value(id, value) ==
    IF id >= EqIdLow /\ id <= EqIdHigh THEN value ELSE value \div Percent

\* A packet is the bytes after the report id: b1 the magic, b2 the command,
\* b3 the declared length, b4..b6, and arg: the state byte 7 of a global
\* write or the f32 of bytes 7..10 of a generic write.
Packet(b2, b3, b4, b5, b6, arg) ==
    [b1 |-> 90, b2 |-> b2, b3 |-> b3, b4 |-> b4, b5 |-> b5, b6 |-> b6, arg |-> arg]

create_payload(fmt, id, value) ==
    IF fmt = "Global"
    THEN [data   |-> Packet(38, 5, 7, id, 0, IF value > 0 THEN 1 ELSE 0),
          commit |-> Packet(38, 3, 8, 255, 255, 0)]
    ELSE [data   |-> Packet(18, 7, 1, 150, id, effective_value(id, value)),
          commit |-> Packet(17, 3, 1, 150, id, 0)]

\* ------------------------------------------------------------------------
\* lib.rs: the managed calls, as functions of a machine state
\*   m.features  the cache
\*   m.sent      the packets the transport accepted, in order
\*   m.n         the number of connection.write calls made so far
\*   m.reads     the number of connection.read calls made so far
\*   m.failed    some connection.write call of this operation failed
\*   m.res       "Ok", or the error that is being returned
\*   m.depth     the number of set_feature calls that are active
\*   m.nest      the largest m.depth reached
\* F is the set of indices of the connection.write calls that fail.

Machine(fs) ==
    [features |-> fs, sent |-> <<>>, n |-> 0, reads |-> 0, failed |-> FALSE, res |-> "Ok",
     depth |-> 0, nest |-> 0]

\* entry to and return from a set_feature call
Enter(m) ==
    [m EXCEPT !.depth = @ + 1, !.nest = IF m.depth + 1 > @ THEN m.depth + 1 ELSE @]

Leave(m) == [m EXCEPT !.depth = @ - 1]

\* self.connection.write(&packet)?
ConnWrite(m, packet, F) ==
    IF m.n + 1 \in F
    THEN [m EXCEPT !.n = @ + 1, !.failed = TRUE, !.res = "Io"]
    ELSE [m EXCEPT !.n = @ + 1, !.sent = Append(@, packet)]

\* update_feature_value
update_feature_value(m, feature, value) ==
    IF feature \in Names
    THEN [m EXCEPT !.features[feature] = value]
    ELSE [m EXCEPT !.res = "NotFound"]

\* the tail of set_feature and set_slider: data, commit, cache
WriteAndUpdate(m, feature, value, cached, F) ==
    LET payload == create_payload(Entry(feature).fmt, Entry(feature).id, value)
        m1 == ConnWrite(m, payload.data, F)
        m2 == ConnWrite(m1, payload.commit, F)
    IN  IF m1.res # "Ok" THEN m1
        ELSE IF m2.res # "Ok" THEN m2
        ELSE update_feature_value(m2, feature, cached)

RECURSIVE set_feature(_, _, _, _)
RECURSIVE EnableDependencies(_, _, _)
RECURSIVE DisableDependents(_, _, _)

\* a variant of the dependency loop that enables a dependency without looking
\* at its cached value
EnableDependencies_always(m, deps, F) ==
    IF deps = <<>> THEN m
    ELSE LET m1 == set_feature(m, Head(deps), "On", F)
         IN  IF m1.res # "Ok" THEN m1 ELSE EnableDependencies(m1, Tail(deps), F)

\* set_feature, lines 476-485: dependencies.iter().try_for_each(...)
EnableDependencies(m, deps, F) ==
    IF deps = <<>> THEN m
    ELSE LET dependency == Head(deps)
             m1 == IF dependency \in Names
                      /\ as_bool(m.features[dependency]) = "SomeTrue"
                   THEN m
                   ELSE set_feature(m, dependency, "On", F)
         IN  IF m1.res # "Ok" THEN m1 ELSE EnableDependencies(m1, Tail(deps), F)

\* a variant of the dependents loop that leaves the dependents as they are
DisableDependents_skipped(m, dependents, F) == m

\* set_feature, lines 494-506: the result of the nested call is dropped
DisableDependents(m, dependents, F) ==
    IF dependents = <<>> THEN m
    ELSE LET dependent == Head(dependents)
             m1 == IF dependent \in Names /\ m.features[dependent].t = "Toggle"
                   THEN IF as_bool(m.features[dependent]) = "SomeFalse"
                        THEN m
                        ELSE [set_feature(m, dependent, "Off", F) EXCEPT !.res = "Ok"]
                   ELSE m
         IN  DisableDependents(m1, Tail(dependents), F)

\* a variant of set_feature without the test of the feature's kind
set_feature_any_kind(m, feature, value, F) ==
    IF feature \notin Names THEN [m EXCEPT !.res = "NotFound"]
    ELSE LET final_value == IF value = "None" /\ m.features[feature].t = "Toggle"
                            THEN ~m.features[feature].v
                            ELSE value = "On"
             m0 == Enter(m)
             m1 == IF final_value
                   THEN EnableDependencies(m0, Entry(feature).dependencies, F)
                   ELSE DisableDependents(m0, get_dependents(feature), F)
             value_byte == IF final_value THEN 100 * Percent ELSE 0
         IN  Leave(IF m1.res # "Ok" THEN m1
                   ELSE WriteAndUpdate(m1, feature, value_byte, Toggle(final_value), F))

\* a variant of set_feature that reads None as Some(true)
set_feature_none_is_on(m, feature, value, F) ==
    IF feature \notin Names THEN [m EXCEPT !.res = "NotFound"]
    ELSE IF m.features[feature].t # "Toggle" THEN [m EXCEPT !.res = "InvalidInput"]
    ELSE LET final_value == value # "Off"
             m0 == Enter(m)
             m1 == IF final_value
                   THEN EnableDependencies(m0, Entry(feature).dependencies, F)
                   ELSE DisableDependents(m0, get_dependents(feature), F)
             value_byte == IF final_value THEN 100 * Percent ELSE 0
         IN  Leave(IF m1.res # "Ok" THEN m1
                   ELSE WriteAndUpdate(m1, feature, value_byte, Toggle(final_value), F))

\* BlasterXG6::set_feature(feature, value), value one of None, Some(true), Some(false)
set_feature(m, feature, value, F) ==
    IF feature \notin Names THEN [m EXCEPT !.res = "NotFound"]
    ELSE IF m.features[feature].t # "Toggle" THEN [m EXCEPT !.res = "InvalidInput"]
    ELSE LET final_value == IF value = "None" THEN ~m.features[feature].v
                            ELSE value = "On"
             m0 == Enter(m)
             m1 == IF final_value
                   THEN EnableDependencies(m0, Entry(feature).dependencies, F)
                   ELSE DisableDependents(m0, get_dependents(feature), F)
             value_byte == IF final_value THEN 100 * Percent ELSE 0
         IN  Leave(IF m1.res # "Ok" THEN m1
                   ELSE WriteAndUpdate(m1, feature, value_byte, Toggle(final_value), F))

RECURSIVE SliderDependencies(_, _, _)

\* a variant of set_slider's loop that enables every dependency, also those
\* cached on
SliderDependencies_always(m, deps, F) ==
    IF deps = <<>> THEN m
    ELSE LET m1 == set_feature(m, Head(deps), "On", F)
         IN  IF m1.res # "Ok" THEN m1 ELSE SliderDependencies(m1, Tail(deps), F)

\* set_slider, lines 553-562
SliderDependencies(m, deps, F) ==
    IF deps = <<>> THEN m
    ELSE LET dependency == Head(deps)
             m1 == IF dependency \in Names
                      /\ as_bool(m.features[dependency]) = "SomeFalse"
                   THEN set_feature(m, dependency, "On", F)
                   ELSE m
         IN  IF m1.res # "Ok" THEN m1 ELSE SliderDependencies(m1, Tail(deps), F)

\* a set_slider that writes the target before it enables the dependencies
set_slider_target_first(m, feature, value, F) ==
    IF feature \notin Names THEN [m EXCEPT !.res = "NotFound"]
    ELSE IF m.features[feature].t # "Slider" THEN [m EXCEPT !.res = "InvalidInput"]
    ELSE LET m1 == WriteAndUpdate(m, feature, value, Slider(value), F)
         IN  IF m1.res # "Ok" THEN m1
             ELSE SliderDependencies(m1, Entry(feature).dependencies, F)

\* BlasterXG6::set_slider(feature, value)
set_slider(m, feature, value, F) ==
    IF feature \notin Names THEN [m EXCEPT !.res = "NotFound"]
    ELSE IF m.features[feature].t # "Slider" THEN [m EXCEPT !.res = "InvalidInput"]
    ELSE LET m1 == SliderDependencies(m, Entry(feature).dependencies, F)
         IN  IF m1.res # "Ok" THEN m1
             ELSE WriteAndUpdate(m1, feature, value, Slider(value), F)

\* reset, lines 295-300 and 309-314: the names of the features whose cached
\* value is of the given kind, in registry order
RECURSIVE NamesOfKind(_, _, _)
NamesOfKind(fs, kind, i) ==
    IF i > Len(FEATURES) THEN <<>>
    ELSE IF fs[FEATURES[i].name].t = kind
         THEN <<FEATURES[i].name>> \o NamesOfKind(fs, kind, i + 1)
         ELSE NamesOfKind(fs, kind, i + 1)

\* reset, lines 302-306: self.set_slider(name, 0.0)? for each slider; the loop
\* ends with the first call that returns an error. The machine each call
\* returns is bound as a value (m1 \in {..}), so that it is computed once.
RECURSIVE ResetSliders(_, _, _)
ResetSliders(m, slider_names, F) ==
    IF slider_names = <<>> \/ m.res # "Ok" THEN m
    ELSE CHOOSE done \in {ResetSliders(m1, Tail(slider_names), F) :
                              m1 \in {set_slider(m, Head(slider_names), 0, F)}} : TRUE

\* reset, lines 316-318: self.set_feature(name, Some(false))? for each toggle
RECURSIVE ResetToggles(_, _, _)
ResetToggles(m, toggle_names, F) ==
    IF toggle_names = <<>> \/ m.res # "Ok" THEN m
    ELSE CHOOSE done \in {ResetToggles(m1, Tail(toggle_names), F) :
                              m1 \in {set_feature(m, Head(toggle_names), "Off", F)}} : TRUE

\* a reset that turns the toggles off before it zeroes the sliders
reset_toggles_first(m, F) ==
    CHOOSE done \in {ResetSliders(m1, NamesOfKind(m.features, "Slider", 1), F) :
                        m1 \in {ResetToggles(m, NamesOfKind(m.features, "Toggle", 1), F)}} : TRUE

\* BlasterXG6::reset(): the sliders, then the toggles, which are not reached
\* when a set_slider call returned an error
reset(m, F) ==
    CHOOSE done \in {ResetToggles(m1, NamesOfKind(m.features, "Toggle", 1), F) :
                        m1 \in {ResetSliders(m, NamesOfKind(m.features, "Slider", 1), F)}} : TRUE

\* ------------------------------------------------------------------------
\* Inputs of the managed calls

MaxWriteIndex == 6      \* the connection.write calls that may fail: 1..MaxWriteIndex

\* no failure, one failing write, or every write failing from some call on
FailSets ==
    {{}} \cup {{k} : k \in 1..MaxWriteIndex}
         \cup {k..MaxWriteIndex : k \in 1..MaxWriteIndex}

CallNames ==
    {"SBX", "Surround", "Equalizer", "Surround Slider", "EQ 1kHz", "Output", "Nope"}
ToggleArgs == {"None", "On", "Off"}
SliderArgs == {0, 300}

NoCall == [op |-> "none", name |-> "", value |-> 0, pre |-> InitialFeatures,
           res |-> "Ok", failed |-> FALSE, n |-> 0, reads |-> 0]

Finish(op, name, value, m) ==
    /\ features' = m.features
    /\ sent' = m.sent
    /\ last' = [op |-> op, name |-> name, value |-> value, pre |-> features,
                res |-> m.res, failed |-> m.failed, n |-> m.n, reads |-> m.reads]

SetFeatureCall ==
    \E feature \in CallNames, value \in ToggleArgs, F \in FailSets :
        Finish("set_feature", feature, value, set_feature(Machine(features), feature, value, F))

SetSliderCall ==
    \E feature \in CallNames, value \in SliderArgs, F \in FailSets :
        Finish("set_slider", feature, value, set_slider(Machine(features), feature, value, F))

\* the connection.write calls of a reset that may fail are those numbered
\* MinResetFail..MaxResetFail: the range holds the writes of the nested calls
\* that turn the dependents of the master toggle off, and writes of reset's
\* own set_slider and set_feature calls before and after them. None of the
\* writes fails, or one does.
MinResetFail == 41
MaxResetFail == 58

ResetFailSets == {{}} \cup {{k} : k \in MinResetFail..MaxResetFail}

ResetCall ==
    \E F \in ResetFailSets :
        \E m \in {reset(Machine(features), F)} : Finish("reset", "", 0, m)

\* the managed sets that bring the cache to the states reset starts from: the
\* calls of SetFeatureCall and SetSliderCall in which no write fails
ResetSetFeature ==
    \E feature \in CallNames, value \in ToggleArgs :
        Finish("set_feature", feature, value, set_feature(Machine(features), feature, value, {}))

ResetSetSlider ==
    \E feature \in CallNames, value \in SliderArgs :
        Finish("set_slider", feature, value, set_slider(Machine(features), feature, value, {}))

\* managed sets from the initial cache, then resets: every cache the sets
\* reach, and every cache a failed reset leaves, is reset
ResetNext ==
    ((last.op # "reset" /\ (ResetSetFeature \/ ResetSetSlider)) \/ ResetCall)
        /\ UNCHANGED <<ioVars, pureVars>>

\* SpecQuiet: set_feature, set_slider and reset on a transport whose writes
\* all succeed
QuietNames ==
    {"SBX", "Scout Mode", "Surround", "Dialog+", "Equalizer",
     "Surround Slider", "EQ 1kHz", "Bass Slider"}

QuietSetFeature ==
    \E feature \in QuietNames, value \in ToggleArgs :
        \E m \in {set_feature(Machine(features), feature, value, {})} :
            Finish("set_feature", feature, value, m)

QuietSetSlider ==
    \E feature \in QuietNames, value \in SliderArgs :
        \E m \in {set_slider(Machine(features), feature, value, {})} :
            Finish("set_slider", feature, value, m)

QuietReset ==
    \E m \in {reset(Machine(features), {})} : Finish("reset", "", 0, m)

QuietNext ==
    (QuietSetFeature \/ QuietSetSlider \/ QuietReset) /\ UNCHANGED <<ioVars, pureVars>>

\* SpecBand: set_slider on EQ bands, with requested values inside, at the ends
\* of and outside the range -12.0..=12.0 of ValueKind::Ranged
EqBandNames == {"EQ 31Hz", "EQ 1kHz", "EQ 16kHz"}
BandValues == {-1500, -1200, 0, 550, 1200, 1500}

SetEqBand ==
    \E feature \in EqBandNames, value \in BandValues :
        Finish("set_slider", feature, value, set_slider(Machine(features), feature, value, {}))

BandNext == SetEqBand /\ UNCHANGED <<ioVars, pureVars>>

\* ------------------------------------------------------------------------
\* Properties of the managed calls (lib.rs)

\* the write packets among the transmitted ones, as <<command, address, value>>
IsWritePacket(p) == p.b2 = 18 \/ (p.b2 = 38 /\ p.b4 = 7)

RECURSIVE WriteLog(_)
WriteLog(s) ==
    IF s = <<>> THEN <<>>
    ELSE IF IsWritePacket(Head(s))
         THEN <<IF Head(s).b2 = 38 THEN <<"Global", Head(s).b5, Head(s).arg>>
                ELSE <<"SBX", Head(s).b6, Head(s).arg>> >> \o WriteLog(Tail(s))
         ELSE WriteLog(Tail(s))

IsPrefix(s, t) == Len(s) <= Len(t) /\ s = SubSeq(t, 1, Len(s))

TwoDependenciesOff ==
    /\ last.op = "set_slider"
    /\ last.name \in Names
    /\ Entry(last.name).kind = "Slider"
    /\ Len(Entry(last.name).dependencies) = 2
    /\ \A i \in 1..2 : last.pre[Entry(last.name).dependencies[i]] = Toggle(FALSE)

\* C1: a set_slider whose master toggle and gating toggle are both cached off
\* transmits the master enable, then the gating enable, then the target's
\* write, in this order and nothing else as a write; on success the cache
\* holds the requested value for the target and on for both dependencies.
C1_DependenciesBeforeTarget ==
    TwoDependenciesOff =>
        LET e == Entry(last.name)
            master == Entry(e.dependencies[1])
            gate == Entry(e.dependencies[2])
            expected == << <<master.fmt, master.id, 1>>,
                           <<gate.fmt, gate.id, 100>>,
                           <<e.fmt, e.id, IF e.id >= 10 /\ e.id <= 20
                                          THEN last.value ELSE last.value \div 100>> >>
        IN  /\ IsPrefix(WriteLog(sent), expected)
            /\ last.res = "Ok" =>
                  /\ WriteLog(sent) = expected
                  /\ features[last.name] = Slider(last.value)
                  /\ features[master.name] = Toggle(TRUE)
                  /\ features[gate.name] = Toggle(TRUE)

C1_Witness ==
    /\ TwoDependenciesOff
    /\ last.name = "EQ 1kHz"
    /\ last.value = 300
    /\ last.res = "Ok"
    /\ Len(sent) = 6
    /\ features["EQ 1kHz"] = Slider(300)

\* C2: a managed set reports success only after a read of the same address,
\* issued after the write, returned a matching response.
C2_SuccessOnlyAfterMatchingRead ==
    (last.op \in {"set_feature", "set_slider"} /\ last.res = "Ok") => last.reads > 0

\* C3: a managed call in which a transport write failed returns an error.
C3_TransportFailureIsReturned ==
    last.failed => last.res # "Ok"

\* the number of writes of the log w that address the registry entry e
RECURSIVE WritesTo(_, _)
WritesTo(w, e) ==
    IF w = <<>> THEN 0
    ELSE (IF Head(w)[1] = e.fmt /\ Head(w)[2] = e.id THEN 1 ELSE 0) + WritesTo(Tail(w), e)

\* C14: writing a feature of dependency depth 2 with both dependencies off
\* enables each dependency at most once, and when the call succeeds exactly
\* two enables precede the one target write.
C14_EachDependencyEnabledOnce ==
    TwoDependenciesOff =>
        LET e == Entry(last.name)
            master == Entry(e.dependencies[1])
            gate == Entry(e.dependencies[2])
            w == WriteLog(sent)
        IN  /\ WritesTo(w, master) <= 1
            /\ WritesTo(w, gate) <= 1
            /\ WritesTo(w, e) <= 1
            /\ last.res = "Ok" =>
                  /\ WritesTo(w, master) = 1
                  /\ WritesTo(w, gate) = 1
                  /\ Len(w) = 3
                  /\ w[3][1] = e.fmt /\ w[3][2] = e.id

C14_Witness ==
    /\ TwoDependenciesOff
    /\ last.name = "Surround Slider"
    /\ last.res = "Ok"
    /\ WritesTo(WriteLog(sent), Entry("SBX")) = 1
    /\ WritesTo(WriteLog(sent), Entry("Surround")) = 1
    /\ Len(WriteLog(sent)) = 3

\* C12: a managed set of the Output feature completes with every other
\* feature of the registry read from the device after the output write.
C12_OutputSetRereadsRegistry ==
    (last.op \in {"set_feature", "set_slider"} /\ last.name = "Output") =>
        /\ last.res = "Ok"
        /\ last.reads >= Len(FEATURES)

\* C24: a managed set of a name that is not in the registry returns NotFound,
\* and a set through the accessor of the other value kind (set_feature on a
\* slider, set_slider on a toggle) returns InvalidInput; in both cases no
\* write to the transport is attempted and the cache is as it was.
C24_RejectedSetTouchesNothing ==
    last.op \in {"set_feature", "set_slider"} =>
        LET accessor == IF last.op = "set_feature" THEN "Toggle" ELSE "Slider"
            rejected == last.name \notin Names \/ Entry(last.name).kind # accessor
        IN  rejected =>
              /\ last.res = IF last.name \notin Names THEN "NotFound" ELSE "InvalidInput"
              /\ last.n = 0
              /\ sent = <<>>
              /\ features = last.pre

\* set_feature on the slider EQ 1kHz was rejected while the master toggle and
\* the slider held values other than the initial ones
C24_Witness ==
    /\ last.op = "set_feature"
    /\ last.name = "EQ 1kHz"
    /\ last.res = "InvalidInput"
    /\ sent = <<>>
    /\ features = last.pre
    /\ features["SBX"] = Toggle(TRUE)
    /\ features["EQ 1kHz"] = Slider(300)

\* the last write of the log w that addresses the registry entry e, <<>> if none
RECURSIVE LastWriteBefore(_, _, _)
LastWriteBefore(w, e, i) ==
    IF i = 0 THEN <<>>
    ELSE IF w[i][1] = e.fmt /\ w[i][2] = e.id THEN w[i]
    ELSE LastWriteBefore(w, e, i - 1)

LastWriteTo(w, e) == LastWriteBefore(w, e, Len(w))

\* the value a write packet carries for a toggle: the state byte of a global
\* write, 1.0 or 0.0 of a generic one
OnWire(e, on) == IF ~on THEN 0 ELSE IF e.fmt = "Global" THEN 1 ELSE 100

\* C25: a successful set_feature of a toggle without a value has written the
\* negation of the value cached when the call was made and caches that
\* negation; with a value it has written and caches the value, whatever was
\* cached before.
C25_ToggleWritesNegation ==
    (last.op = "set_feature" /\ last.res = "Ok") =>
        LET e == Entry(last.name)
            final == IF last.value = "None" THEN ~last.pre[last.name].v
                     ELSE last.value = "On"
        IN  /\ features[last.name] = Toggle(final)
            /\ LastWriteTo(WriteLog(sent), e) = <<e.fmt, e.id, OnWire(e, final)>>

\* Surround, cached on, was set without a value: off was written and is cached
C25_Witness ==
    /\ last.op = "set_feature"
    /\ last.name = "Surround"
    /\ last.value = "None"
    /\ last.res = "Ok"
    /\ last.pre["Surround"] = Toggle(TRUE)
    /\ features["Surround"] = Toggle(FALSE)
    /\ LastWriteTo(WriteLog(sent), Entry("Surround")) = <<"SBX", 0, 0>>

\* the value reset leaves in the cache entry of a feature of the given kind
DefaultValue(kind) == IF kind = "Slider" THEN Slider(0) ELSE Toggle(FALSE)

\* C26: when reset returns success, every slider has been written with 0 and
\* every toggle with off, the last value written to each feature is that
\* default, and the cache holds 0 for every slider and off for every toggle.
C26_ResetLeavesDefaults ==
    (last.op = "reset" /\ last.res = "Ok") =>
        LET w == WriteLog(sent)
        IN  \A i \in 1..Len(FEATURES) :
                /\ LastWriteTo(w, FEATURES[i]) = <<FEATURES[i].fmt, FEATURES[i].id, 0>>
                /\ features[FEATURES[i].name] = DefaultValue(FEATURES[i].kind)

\* a reset succeeded from a cache with SBX and Surround on and two sliders
\* away from 0, although one of its writes failed inside a nested call
C26_Witness ==
    /\ last.op = "reset"
    /\ last.res = "Ok"
    /\ last.failed
    /\ last.pre["SBX"] = Toggle(TRUE)
    /\ last.pre["Surround"] = Toggle(TRUE)
    /\ last.pre["Surround Slider"] = Slider(300)
    /\ last.pre["EQ 1kHz"] = Slider(300)
    /\ features = InitialFeatures

\* C31: in every state reached from the initial registry by set_feature,
\* set_slider and reset calls none of whose writes fails, every toggle cached
\* on has all of its dependencies cached on.
C31_OnToggleHasDependenciesOn ==
    \A i \in 1..Len(FEATURES) :
        features[FEATURES[i].name] = Toggle(TRUE) =>
            \A k \in 1..Len(FEATURES[i].dependencies) :
                features[FEATURES[i].dependencies[k]] = Toggle(TRUE)

\* the master toggle was turned off while Surround, Dialog+ and Bass were on
\* and all three are now off
C31_Witness ==
    /\ last.op = "set_feature"
    /\ last.name = "SBX"
    /\ last.res = "Ok"
    /\ last.pre["Surround"] = Toggle(TRUE)
    /\ last.pre["Dialog+"] = Toggle(TRUE)
    /\ last.pre["Bass"] = Toggle(TRUE)
    /\ features["SBX"] = Toggle(FALSE)
    /\ features["Surround"] = Toggle(FALSE)
    /\ features["Dialog+"] = Toggle(FALSE)
    /\ features["Bass"] = Toggle(FALSE)

\* the packet p is part of a write of the registry entry e: its data packet,
\* or its commit packet
Addresses(p, e) ==
    IF e.fmt = "Global"
    THEN p.b2 = 38 /\ (p.b4 = 8 \/ p.b5 = e.id)
    ELSE p.b2 \in {17, 18} /\ p.b6 = e.id

\* the last managed call was one that enables dependencies: a set_slider of a
\* slider, or a set_feature of a toggle whose final value is on
EnablingCall ==
    /\ last.op \in {"set_feature", "set_slider"}
    /\ last.name \in Names
    /\ IF last.op = "set_slider" THEN Entry(last.name).kind = "Slider"
       ELSE /\ Entry(last.name).kind = "Toggle"
            /\ IF last.value = "None" THEN ~last.pre[last.name].v ELSE last.value = "On"

\* C35: a managed set transmits no packet for a dependency of the target that
\* is cached on and leaves its cached value as it was; the packets it
\* transmits are those of the target and of the dependencies cached off, each
\* of which is written when the call succeeds.
C35_OnDependencyNotWritten ==
    EnablingCall =>
        LET e == Entry(last.name)
            deps == {e.dependencies[k] : k \in 1..Len(e.dependencies)}
            on == {d \in deps : last.pre[d] = Toggle(TRUE)}
        IN  /\ \A d \in on :
                  /\ features[d] = last.pre[d]
                  /\ \A i \in 1..Len(sent) : ~Addresses(sent[i], Entry(d))
            /\ \A i \in 1..Len(sent) :
                  \/ Addresses(sent[i], e)
                  \/ \E d \in deps \ on : Addresses(sent[i], Entry(d))
            /\ last.res = "Ok" =>
                  \A d \in deps \ on : WritesTo(WriteLog(sent), Entry(d)) = 1

\* Surround Slider was set with the master toggle cached on and Surround
\* cached off: Surround and the slider were written, the master toggle was not
C35_Witness ==
    /\ last.op = "set_slider"
    /\ last.name = "Surround Slider"
    /\ last.res = "Ok"
    /\ last.pre["SBX"] = Toggle(TRUE)
    /\ last.pre["Surround"] = Toggle(FALSE)
    /\ features["Surround"] = Toggle(TRUE)
    /\ WritesTo(WriteLog(sent), Entry("SBX")) = 0
    /\ WritesTo(WriteLog(sent), Entry("Surround")) = 1
    /\ Len(sent) = 4

\* both packets of a write of the registry entry e were accepted
FullyWritten(e) ==
    \E i, k \in 1..Len(sent) :
        /\ i < k
        /\ Addresses(sent[i], e) /\ IsWritePacket(sent[i])
        /\ Addresses(sent[k], e) /\ ~IsWritePacket(sent[k])

\* the first half of C34: a managed set that returns an error leaves the
\* target's cached value as it was, and the dependencies it enabled before the
\* failure are cached on
C34_NoRollback ==
    (last.op \in {"set_feature", "set_slider"} /\ last.name \in Names /\ last.res = "Io") =>
        /\ features[last.name] = last.pre[last.name]
        /\ EnablingCall =>
              \A k \in 1..Len(Entry(last.name).dependencies) :
                  LET d == Entry(last.name).dependencies[k]
                  IN  (last.pre[d] = Toggle(FALSE) /\ FullyWritten(Entry(d)))
                          => features[d] = Toggle(TRUE)

\* C34: when the target's transmission fails during a managed set, the target's
\* cached value is unchanged and the dependencies already enabled stay cached
\* on; a reset that fails part-way leaves every feature either at its default
\* (those processed) or as it was (the rest).
C34_FailureLeavesRestUntouched ==
    /\ C34_NoRollback
    /\ (last.op = "reset" /\ last.res # "Ok") =>
          \A n \in Names :
              features[n] = DefaultValue(Entry(n).kind) \/ features[n] = last.pre[n]

\* f32::clamp(-12.0, 12.0), in hundredths
ClampBand(value) == IF value < -1200 THEN -1200 ELSE IF value > 1200 THEN 1200 ELSE value

\* C38: the value transmitted for an EQ band is the requested value clamped to
\* -12.0..=12.0: values below are sent as -12.0, values above as 12.0, values
\* in the range unchanged.
C38_EqBandClamped ==
    (last.op = "set_slider" /\ last.name \in EqBandNames /\ last.res = "Ok") =>
        LET written == LastWriteTo(WriteLog(sent), Entry(last.name))
        IN  /\ written # <<>>
            /\ written[3] >= -1200
            /\ written[3] <= 1200
            /\ written[3] = ClampBand(last.value)

\* C29: whenever set_feature(X, Off) returns success, X and every toggle that
\* lists X as a dependency are cached off.
C29_OffTurnsDependentsOff ==
    (last.op = "set_feature" /\ last.value = "Off" /\ last.res = "Ok") =>
        /\ features[last.name] = Toggle(FALSE)
        /\ \A n \in Names :
              (Entry(n).kind = "Toggle" /\ SeqContains(Entry(n).dependencies, last.name))
                  => features[n] = Toggle(FALSE)

\* C13: a managed set that wrote its target has read every dependent of the
\* target from the device.
C13_DependentsReadAfterWrite ==
    (last.op = "set_feature" /\ last.res = "Ok" /\ last.name \in Names) =>
        last.reads >= Len(get_dependents(last.name))

\* ------------------------------------------------------------------------
\* features.rs: FeatureId, the registry all_features, the addressing schemes

ALL == <<
    "SbxMaster", "ScoutMode", "Output",
    "SurroundToggle", "SurroundLevel", "DialogPlusToggle", "DialogPlusLevel",
    "SmartVolToggle", "SmartVolLevel", "SmartVolMode",
    "CrystalizerToggle", "CrystalizerLevel", "BassToggle", "BassLevel",
    "SurroundDistance",
    "EqToggle", "EqPreAmp", "Eq31Hz", "Eq62Hz", "Eq125Hz", "Eq250Hz",
    "Eq500Hz", "Eq1kHz", "Eq2kHz", "Eq4kHz", "Eq8kHz", "Eq16kHz" >>

FeatureId == {ALL[i] : i \in 1..Len(ALL)}

Some(family, feature_id) == [some |-> TRUE, family |-> family, feature_id |-> feature_id]
None == [some |-> FALSE, family |-> 0, feature_id |-> 0]

\* FeatureId::dsp_address
dsp_address(id) ==
    CASE id = "SurroundToggle"    -> Some(150, 0)
      [] id = "SurroundLevel"     -> Some(150, 1)
      [] id = "DialogPlusToggle"  -> Some(150, 2)
      [] id = "DialogPlusLevel"   -> Some(150, 3)
      [] id = "SmartVolToggle"    -> Some(150, 4)
      [] id = "SmartVolLevel"     -> Some(150, 5)
      [] id = "SmartVolMode"      -> Some(150, 6)
      [] id = "CrystalizerToggle" -> Some(150, 7)
      [] id = "CrystalizerLevel"  -> Some(150, 8)
      [] id = "EqToggle"          -> Some(150, 9)
      [] id = "EqPreAmp"          -> Some(150, 10)
      [] id = "Eq31Hz"            -> Some(150, 11)
      [] id = "Eq62Hz"            -> Some(150, 12)
      [] id = "Eq125Hz"           -> Some(150, 13)
      [] id = "Eq250Hz"           -> Some(150, 14)
      [] id = "Eq500Hz"           -> Some(150, 15)
      [] id = "Eq1kHz"            -> Some(150, 16)
      [] id = "Eq2kHz"            -> Some(150, 17)
      [] id = "Eq4kHz"            -> Some(150, 18)
      [] id = "Eq8kHz"            -> Some(150, 19)
      [] id = "Eq16kHz"           -> Some(150, 20)
      [] id = "SurroundDistance"  -> Some(150, 23)
      [] id = "BassToggle"        -> Some(150, 24)
      [] id = "BassLevel"         -> Some(150, 25)
      [] OTHER                    -> None

\* FeatureId::dependencies: the features that must be on, in the order listed
dependencies(id) ==
    CASE id \in {"SbxMaster", "ScoutMode", "Output"} -> <<>>
      [] id \in {"SurroundToggle", "DialogPlusToggle", "SmartVolToggle",
                 "CrystalizerToggle", "BassToggle", "EqToggle"} -> <<"SbxMaster">>
      [] id \in {"SurroundLevel", "SurroundDistance"} -> <<"SbxMaster", "SurroundToggle">>
      [] id = "DialogPlusLevel" -> <<"SbxMaster", "DialogPlusToggle">>
      [] id \in {"SmartVolLevel", "SmartVolMode"} -> <<"SbxMaster", "SmartVolToggle">>
      [] id = "CrystalizerLevel" -> <<"SbxMaster", "CrystalizerToggle">>
      [] id = "BassLevel" -> <<"SbxMaster", "BassToggle">>
      [] id \in {"EqPreAmp", "Eq31Hz", "Eq62Hz", "Eq125Hz", "Eq250Hz", "Eq500Hz",
                 "Eq1kHz", "Eq2kHz", "Eq4kHz", "Eq8kHz", "Eq16kHz"} ->
            <<"SbxMaster", "EqToggle">>

\* the list FeatureId::dependents returns for EqToggle
EqDependents ==
    <<"EqPreAmp", "Eq31Hz", "Eq62Hz", "Eq125Hz", "Eq250Hz", "Eq500Hz",
      "Eq1kHz", "Eq2kHz", "Eq4kHz", "Eq8kHz", "Eq16kHz">>

\* a variant of FeatureId::dependents that leaves SurroundDistance out of the
\* list of SurroundToggle
dependents_without_distance(id) ==
    CASE id = "SbxMaster" ->
            <<"SurroundToggle", "SurroundLevel", "SurroundDistance",
              "DialogPlusToggle", "DialogPlusLevel",
              "SmartVolToggle", "SmartVolLevel", "SmartVolMode",
              "CrystalizerToggle", "CrystalizerLevel",
              "BassToggle", "BassLevel", "EqToggle">> \o EqDependents
      [] id = "SurroundToggle" -> <<"SurroundLevel">>
      [] id = "DialogPlusToggle" -> <<"DialogPlusLevel">>
      [] id = "SmartVolToggle" -> <<"SmartVolLevel", "SmartVolMode">>
      [] id = "CrystalizerToggle" -> <<"CrystalizerLevel">>
      [] id = "BassToggle" -> <<"BassLevel">>
      [] id = "EqToggle" -> EqDependents
      [] OTHER -> <<>>

\* a variant of FeatureId::dependents that lists EqToggle among its own
\* dependents
dependents_with_self(id) ==
    CASE id = "SbxMaster" ->
            <<"SurroundToggle", "SurroundLevel", "SurroundDistance",
              "DialogPlusToggle", "DialogPlusLevel",
              "SmartVolToggle", "SmartVolLevel", "SmartVolMode",
              "CrystalizerToggle", "CrystalizerLevel",
              "BassToggle", "BassLevel", "EqToggle">> \o EqDependents
      [] id = "SurroundToggle" -> <<"SurroundLevel", "SurroundDistance">>
      [] id = "DialogPlusToggle" -> <<"DialogPlusLevel">>
      [] id = "SmartVolToggle" -> <<"SmartVolLevel", "SmartVolMode">>
      [] id = "CrystalizerToggle" -> <<"CrystalizerLevel">>
      [] id = "BassToggle" -> <<"BassLevel">>
      [] id = "EqToggle" -> <<"EqToggle">> \o EqDependents
      [] OTHER -> <<>>

\* FeatureId::dependents: the features to re-query after this one changes
dependents(id) ==
    CASE id = "SbxMaster" ->
            <<"SurroundToggle", "SurroundLevel", "SurroundDistance",
              "DialogPlusToggle", "DialogPlusLevel",
              "SmartVolToggle", "SmartVolLevel", "SmartVolMode",
              "CrystalizerToggle", "CrystalizerLevel",
              "BassToggle", "BassLevel", "EqToggle">> \o EqDependents
      [] id = "SurroundToggle" -> <<"SurroundLevel", "SurroundDistance">>
      [] id = "DialogPlusToggle" -> <<"DialogPlusLevel">>
      [] id = "SmartVolToggle" -> <<"SmartVolLevel", "SmartVolMode">>
      [] id = "CrystalizerToggle" -> <<"CrystalizerLevel">>
      [] id = "BassToggle" -> <<"BassLevel">>
      [] id = "EqToggle" -> EqDependents
      [] OTHER -> <<>>

\* all_features: the getter/setter pair each Feature is built with
Scheme(id) ==
    CASE id \in {"SbxMaster", "ScoutMode"} -> "global_profile"
      [] id = "Output"                     -> "output"
      [] OTHER                             -> "dsp"

\* f32::NAN, the value of every Feature until its first successful read
NaN == -1000000

all_features == [id \in FeatureId |-> NaN]

MAX_READ_ATTEMPTS == 30

\* ------------------------------------------------------------------------
\* features.rs: the packets

\* a 64-byte report read from the device: bytes 0, 1, 4, 5, 6 and the f32 of
\* bytes 7..10
Resp(r0, r1, r4, r5, r6, f) ==
    [r0 |-> r0, r1 |-> r1, r4 |-> r4, r5 |-> r5, r6 |-> r6, f |-> f]

NoResp == Resp(0, 0, 0, 0, 0, 0)

\* a variant that tests bit 0 for both features
ProfileBit_master_only(id) == 1

\* GlobalProfile bit of a feature (global_profile_get, global_profile_set)
ProfileBit(id) == IF id = "SbxMaster" THEN 1 ELSE 2

\* the query each getter transmits
GetRequest(id) ==
    CASE Scheme(id) = "dsp" ->
            Packet(17, 3, 1, dsp_address(id).family, dsp_address(id).feature_id, 0)
      [] Scheme(id) = "global_profile" -> Packet(38, 3, 8, 255, 255, 0)
      [] Scheme(id) = "output" -> Packet(44, 1, 1, 0, 0, 0)

\* the write each setter transmits
SetRequest(id, v) ==
    CASE Scheme(id) = "dsp" ->
            Packet(18, 7, 1, dsp_address(id).family, dsp_address(id).feature_id, v)
      [] Scheme(id) = "global_profile" ->
            Packet(38, 5, 7, ProfileBit(id), 0, IF v > 0 THEN 1 ELSE 0)
      [] Scheme(id) = "output" -> Packet(44, 5, 0, IF v > 0 THEN 4 ELSE 2, 0, 0)

\* a variant of dsp_get's test that does not compare the family byte
DspMatch_any_family(id, r) ==
    /\ r.r0 = 90
    /\ r.r1 = 17
    /\ r.r6 = dsp_address(id).feature_id

\* dsp_get, lines 624-627
DspMatch(id, r) ==
    /\ r.r0 = 90
    /\ r.r1 = 17
    /\ r.r5 = dsp_address(id).family
    /\ r.r6 = dsp_address(id).feature_id

\* global_profile_get, line 728
GlobalProfileMatch(r) == r.r0 = 90 /\ r.r1 = 38

\* output_get, line 819
OutputMatch(r) == r.r0 = 90 /\ r.r1 = 44

\* read_ack, line 568
AckMatch(r) == r.r0 = 90 /\ r.r1 = 2

\* the test the polling loop of (op, id) applies to a received packet
Matches(op, id, r) ==
    IF op = "set" THEN AckMatch(r)
    ELSE CASE Scheme(id) = "dsp" -> DspMatch(id, r)
           [] Scheme(id) = "global_profile" -> GlobalProfileMatch(r)
           [] Scheme(id) = "output" -> OutputMatch(r)

\* (device_bitmask & bitmask) != 0 for the one-bit mask of the feature
BitSet(byte, bit) == (byte \div bit) % 2 = 1

\* the value a getter decodes from the matching packet
Decode(id, r) ==
    CASE Scheme(id) = "dsp" -> r.f
      [] Scheme(id) = "global_profile" ->
            IF BitSet(r.r6, ProfileBit(id)) THEN 100 ELSE 0
      [] Scheme(id) = "output" ->
            IF r.r4 = 2 THEN 0 ELSE IF r.r4 = 4 THEN 100 ELSE NaN

\* ------------------------------------------------------------------------
\* features.rs: a caller's steps through read_from_device / write_to_device

\* a caller outside a getter or setter: the value the last one returned and the
\* last line it logged
Idle(ret, log) ==
    [pc |-> "idle", op |-> "none", id |-> "Output", arg |-> 0, attempt |-> 0,
     hit |-> NoResp, ret |-> ret, log |-> log]

\* the packets a getter or setter writes to DEVICE_CONNECTION before it polls
Transmitted(op, id, arg) ==
    <<IF op = "get" THEN GetRequest(id) ELSE SetRequest(id, arg)>>

\* the getter or setter transmits its packet: DEVICE_CONNECTION.write(..).expect(..)
Transmit(c, op, id, arg, ok) ==
    /\ panic = "none"
    /\ th[c].pc = "idle"
    /\ IF ok
       THEN /\ th' = [th EXCEPT ![c] = [pc |-> "poll", op |-> op, id |-> id, arg |-> arg,
                                        attempt |-> 0, hit |-> NoResp, ret |-> 0,
                                        log |-> "query"]]
            /\ panic' = panic
       ELSE /\ panic' = "transport write failed"
            /\ th' = th
    /\ values' = values

\* a variant of the polling loop that stores the default value when the
\* attempts are exhausted
AfterRead_store_default(t, rx) ==
    IF rx.kind = "packet" /\ Matches(t.op, t.id, rx.pkt)
    THEN IF t.op = "set"
         THEN Idle(0, "ACK received")
         ELSE [t EXCEPT !.pc = "store", !.hit = rx.pkt, !.log = "Read"]
    ELSE IF t.attempt + 1 < MAX_READ_ATTEMPTS
         THEN [t EXCEPT !.attempt = @ + 1,
                        !.log = IF rx.kind = "packet" THEN "Discarded" ELSE "No response"]
         ELSE IF t.op = "set"
              THEN Idle(0, "No ACK received")
              ELSE [t EXCEPT !.pc = "store", !.hit = NoResp,
                             !.log = "No matching response"]

\* a variant of the polling loop that reads once more than the bound
AfterRead_one_more(t, rx) ==
    IF rx.kind = "packet" /\ Matches(t.op, t.id, rx.pkt)
    THEN IF t.op = "set"
         THEN Idle(0, "ACK received")
         ELSE [t EXCEPT !.pc = "store", !.hit = rx.pkt, !.log = "Read"]
    ELSE IF t.attempt + 1 <= MAX_READ_ATTEMPTS
         THEN [t EXCEPT !.attempt = @ + 1,
                        !.log = IF rx.kind = "packet" THEN "Discarded" ELSE "No response"]
         ELSE Idle(0, IF t.op = "set" THEN "No ACK received" ELSE "No matching response")

\* a variant of the polling loop in which a setter stores what it decodes
\* from the acknowledgement
AfterRead_set_stores(t, rx) ==
    IF rx.kind = "packet" /\ Matches(t.op, t.id, rx.pkt)
    THEN [t EXCEPT !.pc = "store", !.hit = rx.pkt,
                   !.log = IF t.op = "set" THEN "ACK received" ELSE "Read"]
    ELSE IF t.attempt + 1 < MAX_READ_ATTEMPTS
         THEN [t EXCEPT !.attempt = @ + 1,
                        !.log = IF rx.kind = "packet" THEN "Discarded" ELSE "No response"]
         ELSE Idle(0, IF t.op = "set" THEN "No ACK received" ELSE "No matching response")

\* what the caller does with the outcome rx of one read_packet call
AfterRead(t, rx) ==
    IF rx.kind = "packet" /\ Matches(t.op, t.id, rx.pkt)
    THEN IF t.op = "set"
         THEN Idle(0, "ACK received")
         ELSE [t EXCEPT !.pc = "store", !.hit = rx.pkt, !.log = "Read"]
    ELSE IF t.attempt + 1 < MAX_READ_ATTEMPTS
         THEN [t EXCEPT !.attempt = @ + 1,
                        !.log = IF rx.kind = "packet" THEN "Discarded" ELSE "No response"]
         ELSE Idle(0, IF t.op = "set" THEN "No ACK received" ELSE "No matching response")

\* one iteration of the polling loop of dsp_get, global_profile_get,
\* output_get or read_ack: read_packet, then the test of the packet
ReadPacket(c, rx) ==
    /\ panic = "none"
    /\ th[c].pc = "poll"
    /\ th' = [th EXCEPT ![c] = AfterRead(th[c], rx)]
    /\ UNCHANGED <<values, panic>>

\* a variant of the store that writes the decoded value into every feature
Store_every_feature(c) ==
    /\ panic = "none"
    /\ th[c].pc = "store"
    /\ values' = [j \in FeatureId |-> Decode(th[c].id, th[c].hit)]
    /\ th' = [th EXCEPT ![c] = Idle(Decode(th[c].id, th[c].hit), "Read")]
    /\ panic' = panic

\* *feature.value.lock().unwrap() = value; return value
Store(c) ==
    /\ panic = "none"
    /\ th[c].pc = "store"
    /\ values' = [values EXCEPT ![th[c].id] = Decode(th[c].id, th[c].hit)]
    /\ th' = [th EXCEPT ![c] = Idle(Decode(th[c].id, th[c].hit), "Read")]
    /\ panic' = panic

\* a variant of the match that reads every value other than 0.0 as true
feature_as_bool_coerce(value) ==
    IF value = 0 THEN "false" ELSE "true"

\* Feature::as_bool, the match on the cached value: 0.0, 1.0, anything else
feature_as_bool(value) ==
    IF value # NaN /\ value = 0 THEN "false"
    ELSE IF value # NaN /\ value = 100 THEN "true"
    ELSE "panic"

\* Feature::as_bool: the caller gets true (ret 1) or false (ret 0), or the
\* process panics
AsBool(c, id) ==
    /\ panic = "none"
    /\ th[c].pc = "idle"
    /\ IF feature_as_bool(values[id]) = "panic"
       THEN /\ panic' = "invalid toggle value"
            /\ th' = th
       ELSE /\ panic' = panic
            /\ th' = [th EXCEPT ![c] =
                        Idle(IF feature_as_bool(values[id]) = "true" THEN 1 ELSE 0, "as_bool")]
    /\ values' = values

\* ------------------------------------------------------------------------
\* The transport: what one read_timeout call can return

Timeout == [kind |-> "timeout", pkt |-> NoResp]
ReadError == [kind |-> "error", pkt |-> NoResp]
NotRead == [kind |-> "none", pkt |-> NoResp]
Received(r) == [kind |-> "packet", pkt |-> r]

Responses == {
    Resp(90, 17, 0, 150, 16, 300),    \* Eq1kHz = 3.0
    Resp(90, 17, 0, 150, 16, 100),    \* Eq1kHz = 1.0
    Resp(90, 17, 0, 150, 17, 300),    \* Eq2kHz = 3.0
    Resp(90, 17, 0, 151, 16, 300),    \* another family
    Resp(0,  17, 0, 150, 16, 300),    \* no magic byte
    Resp(90, 18, 0, 150, 16, 300),    \* another command
    Resp(90, 2,  0, 0,   0,  0),      \* acknowledgement
    Resp(0,  2,  0, 0,   0,  0),      \* acknowledgement without the magic byte
    Resp(90, 38, 255, 255, 5, 0),     \* global profile, bits 0 and 2
    Resp(90, 38, 255, 255, 2, 0),     \* global profile, bit 1
    Resp(0,  38, 255, 255, 5, 0),
    Resp(90, 44, 2, 0, 0, 0),         \* output: speakers
    Resp(90, 44, 4, 0, 0, 0),         \* output: headphones
    Resp(90, 44, 7, 0, 0, 0),         \* output: an unknown route
    Resp(0,  44, 4, 0, 0, 0) }

Outcomes == {Timeout, ReadError} \cup {Received(r) : r \in Responses}

\* ------------------------------------------------------------------------
\* SpecIO: one caller, with the history of its current operation

IoIds == {"Eq1kHz", "SbxMaster", "Output"}
IoArgs == {100}
\* as_bool reads the cache of any Feature: of the two toggles, which hold
\* NaN, 0.0 or 1.0, and of Eq1kHz, which holds what the device reported
AsBoolIds == {"SbxMaster", "Output", "Eq1kHz"}

\* obs: the operation (op, id), the cache when it began (pre), the packets it
\* transmitted (tx), the number of read_packet calls it made (nread) and the
\* outcome of the last one (rx)
Obs(op, id, pre, tx) ==
    [op |-> op, id |-> id, pre |-> pre, tx |-> tx, nread |-> 0, rx |-> NotRead]

NoObs == Obs("none", "Output", all_features, <<>>)

IoTransmit ==
    \E op \in {"get", "set"}, id \in IoIds, arg \in IoArgs, ok \in BOOLEAN :
        /\ Transmit(1, op, id, arg, ok)
        /\ obs' = IF ok THEN Obs(op, id, values, Transmitted(op, id, arg))
                        ELSE Obs("write_failed", id, values, <<>>)

IoReadPacket ==
    \E rx \in Outcomes :
        /\ ReadPacket(1, rx)
        /\ obs' = [obs EXCEPT !.rx = rx, !.nread = @ + 1]

IoStore == Store(1) /\ obs' = obs

IoAsBool ==
    \E id \in AsBoolIds : AsBool(1, id) /\ obs' = Obs("as_bool", id, values, <<>>)

IoNext ==
    (IoTransmit \/ IoReadPacket \/ IoStore \/ IoAsBool) /\ UNCHANGED <<engineVars, lock, hid, pureVars>>

\* ------------------------------------------------------------------------
\* SpecQueue: one caller reading two DSP features from a device that answers
\* each query with one input report, at its own pace; read_timeout hands out
\* the reports in the order they arrived
\*   device     the value the device holds for each feature
\*   pending    the queries the device has received and not yet answered
\*   rxq        the input reports waiting to be read, oldest first
\*   seen       the reports the current operation has read, in order
\*   taken      the serial numbers of all the reports read so far
\*   op, next   the number of the last query, the serial of the next report

MaxQueries == 3

QueueIds == {"Eq1kHz", "Eq2kHz"}

DeviceValues == {100, 300}

NoTraffic ==
    [device |-> [id \in QueueIds |-> 100], pending |-> <<>>, rxq |-> <<>>,
     seen |-> <<>>, taken |-> {}, op |-> 0, next |-> 1]

\* the report that answers the query q: 5a 11 08 01 00 [family] [id] [f32 LE]
Report(q, n, device) ==
    [pkt |-> Resp(90, 17, 0, dsp_address(q.id).family, dsp_address(q.id).feature_id,
                  device[q.id]),
     n |-> n, req |-> q.req]

\* read_timeout: the oldest waiting report, or Ok(0) after READ_TIMEOUT_MS
Receive(rxq) == IF rxq = <<>> THEN Timeout ELSE Received(Head(rxq).pkt)

\* a variant of read_timeout that leaves the report it returns in the queue
Rest_peek(rxq) == rxq

\* the reports still waiting after read_timeout has returned
Rest(rxq) == IF rxq = <<>> THEN rxq ELSE Tail(rxq)

\* dsp_get sends its query, which the device receives
QueueTransmit ==
    \E id \in QueueIds, ok \in BOOLEAN :
        /\ hid.op < MaxQueries
        /\ Transmit(1, "get", id, 0, ok)
        /\ hid' = IF ok
                  THEN [hid EXCEPT !.pending = Append(@, [id |-> id, req |-> hid.op + 1]),
                                   !.op = @ + 1,
                                   !.seen = <<>>]
                  ELSE hid

\* the device answers its oldest unanswered query with the value it holds
QueueDeviceReply ==
    /\ panic = "none"
    /\ hid.pending # <<>>
    /\ hid' = [hid EXCEPT !.pending = Tail(@),
                          !.rxq = Append(@, Report(Head(hid.pending), hid.next, hid.device)),
                          !.next = @ + 1]
    /\ UNCHANGED <<values, th, panic>>

\* the value on the device changes
QueueDeviceChange ==
    \E id \in QueueIds, v \in DeviceValues :
        /\ panic = "none"
        /\ hid.device[id] # v
        /\ hid' = [hid EXCEPT !.device[id] = v]
        /\ UNCHANGED <<values, th, panic>>

\* one iteration of the polling loop of dsp_get on this transport
QueueReadPacket ==
    /\ ReadPacket(1, Receive(hid.rxq))
    /\ hid' = [hid EXCEPT !.rxq = Rest(hid.rxq),
                          !.seen = IF hid.rxq = <<>> THEN @ ELSE Append(@, Head(hid.rxq)),
                          !.taken = IF hid.rxq = <<>> THEN @ ELSE @ \cup {Head(hid.rxq).n}]

QueueStore == Store(1) /\ hid' = hid

QueueNext ==
    (QueueTransmit \/ QueueDeviceReply \/ QueueDeviceChange \/ QueueReadPacket \/ QueueStore)
    /\ UNCHANGED <<engineVars, obs, lock, pureVars>>

\* ------------------------------------------------------------------------
\* SpecConc: two callers sharing DEVICE_CONNECTION and the cache

Callers == {1, 2}
ConcIds == {"Eq1kHz"}
ConcResponses == {Resp(90, 17, 0, 150, 16, 300), Resp(90, 2, 0, 0, 0, 0)}
ConcOutcomes == {Timeout} \cup {Received(r) : r \in ConcResponses}

ConcTransmit ==
    \E c \in Callers, op \in {"get", "set"}, id \in ConcIds, ok \in BOOLEAN :
        Transmit(c, op, id, 100, ok)

ConcReadPacket == \E c \in Callers, rx \in ConcOutcomes : ReadPacket(c, rx)

ConcStore == \E c \in Callers : Store(c)

ConcNext ==
    (ConcTransmit \/ ConcReadPacket \/ ConcStore) /\ UNCHANGED <<engineVars, obs, lock, hid, pureVars>>

\* ------------------------------------------------------------------------
\* SpecCache: two callers reading and updating Feature.value through its Mutex
\*   Feature::value          *self.value.lock().unwrap()
\*   dsp_get and the others  *feature.value.lock().unwrap() = value

CacheIds == {"Eq1kHz", "SbxMaster"}

\* the caller holds the guard of Feature.value of id, for a read ("value") or
\* for the assignment of arg ("store")
Locked(op, id, arg) ==
    [pc |-> "locked", op |-> op, id |-> id, arg |-> arg, attempt |-> 0,
     hit |-> NoResp, ret |-> 0, log |-> ""]

\* a variant of lock() that does not wait for the holder to release
LockValue_no_wait(c, op, id, arg) ==
    /\ panic = "none"
    /\ th[c].pc = "idle"
    /\ lock' = [lock EXCEPT ![id] = c]
    /\ th' = [th EXCEPT ![c] = Locked(op, id, arg)]
    /\ UNCHANGED <<values, panic>>

\* self.value.lock().unwrap(): blocks while another caller holds the guard
LockValue(c, op, id, arg) ==
    /\ panic = "none"
    /\ th[c].pc = "idle"
    /\ lock[id] = 0
    /\ lock' = [lock EXCEPT ![id] = c]
    /\ th' = [th EXCEPT ![c] = Locked(op, id, arg)]
    /\ UNCHANGED <<values, panic>>

\* the access through the guard, and the drop of the guard at the end of the
\* statement
UnlockValue(c) ==
    /\ panic = "none"
    /\ th[c].pc = "locked"
    /\ IF th[c].op = "store"
       THEN /\ values' = [values EXCEPT ![th[c].id] = th[c].arg]
            /\ th' = [th EXCEPT ![c] = Idle(th[c].arg, "Read")]
       ELSE /\ values' = values
            /\ th' = [th EXCEPT ![c] = Idle(values[th[c].id], "value")]
    /\ lock' = [lock EXCEPT ![th[c].id] = 0]
    /\ panic' = panic

\* Feature::value
CacheValue == \E c \in Callers, id \in CacheIds : LockValue(c, "value", id, 0)

\* the store of a getter that received a matching packet r
CacheStore ==
    \E c \in Callers, id \in CacheIds, r \in Responses :
        /\ Matches("get", id, r)
        /\ LockValue(c, "store", id, Decode(id, r))

CacheUnlock == \E c \in Callers : UnlockValue(c)

CacheNext ==
    (CacheValue \/ CacheStore \/ CacheUnlock) /\ UNCHANGED <<engineVars, obs, hid, pureVars>>

\* ------------------------------------------------------------------------
\* SpecLocks: two callers, every Mutex guard taken and dropped as its own step
\*   DEVICE_CONNECTION     the Mutex around the HidDevice
\*   a FeatureId           Feature.value of the Feature of the global registry
\*   "deserialized by c"   Feature.value of the Feature that caller c's
\*                         deserialize takes from its own all_features()

LocalMutex(c) == IF c = 1 THEN "deserialized by 1" ELSE "deserialized by 2"

Mutexes == FeatureId \cup {"DEVICE_CONNECTION"} \cup {LocalMutex(c) : c \in Callers}

LockIds == {"Eq1kHz", "SbxMaster"}

LockOutcomes ==
    {Timeout, Received(Resp(90, 17, 0, 150, 16, 300)), Received(Resp(90, 38, 255, 255, 5, 0))}

\* the guards a caller holds
Held(c) == {m \in Mutexes : lock[m] = c}

At(c, pc) == [th[c] EXCEPT !.pc = pc]

\* a getter has built its query and is about to lock DEVICE_CONNECTION
LkGet(c, id) ==
    /\ panic = "none"
    /\ th[c].pc = "idle"
    /\ th' = [th EXCEPT ![c] = [pc |-> "send", op |-> "get", id |-> id, arg |-> 0,
                                 attempt |-> 0, hit |-> NoResp, ret |-> 0, log |-> "query"]]
    /\ UNCHANGED <<values, panic, lock>>

\* DEVICE_CONNECTION.get().expect(..).lock().unwrap(), for the write of the
\* query or inside read_packet
LkLockTransport(c) ==
    /\ panic = "none"
    /\ th[c].pc \in {"send", "poll"}
    /\ lock["DEVICE_CONNECTION"] = 0
    /\ lock' = [lock EXCEPT !["DEVICE_CONNECTION"] = c]
    /\ th' = [th EXCEPT ![c] = At(c, IF th[c].pc = "send" THEN "write" ELSE "read")]
    /\ UNCHANGED <<values, panic>>

\* .write(&payload).expect(..); the guard is a temporary of the statement
LkWrite(c, ok) ==
    /\ panic = "none"
    /\ th[c].pc = "write"
    /\ IF ok
       THEN /\ th' = [th EXCEPT ![c] = At(c, "poll")]
            /\ lock' = [lock EXCEPT !["DEVICE_CONNECTION"] = 0]
            /\ panic' = panic
       ELSE /\ panic' = "transport write failed"
            /\ UNCHANGED <<th, lock>>
    /\ values' = values

\* a variant of read_packet whose guard outlives the call
LkRead_guard_kept(c, rx) ==
    /\ panic = "none"
    /\ th[c].pc = "read"
    /\ th' = [th EXCEPT ![c] = AfterRead(At(c, "poll"), rx)]
    /\ lock' = IF AfterRead(At(c, "poll"), rx).pc = "store" THEN lock
               ELSE [lock EXCEPT !["DEVICE_CONNECTION"] = 0]
    /\ UNCHANGED <<values, panic>>

\* read_packet: read_timeout under the guard, which is dropped when the match
\* on its result ends; then the test of the packet by the polling loop
LkRead(c, rx) ==
    /\ panic = "none"
    /\ th[c].pc = "read"
    /\ th' = [th EXCEPT ![c] = AfterRead(At(c, "poll"), rx)]
    /\ lock' = [lock EXCEPT !["DEVICE_CONNECTION"] = 0]
    /\ UNCHANGED <<values, panic>>

\* feature.value.lock().unwrap() of the store of a getter
LkLockValue(c) ==
    /\ panic = "none"
    /\ th[c].pc = "store"
    /\ lock[th[c].id] = 0
    /\ lock' = [lock EXCEPT ![th[c].id] = c]
    /\ th' = [th EXCEPT ![c] = At(c, "assign")]
    /\ UNCHANGED <<values, panic>>

\* *guard = value, the drop of the guard, return value
LkAssign(c) ==
    /\ panic = "none"
    /\ th[c].pc = "assign"
    /\ values' = [values EXCEPT ![th[c].id] = Decode(th[c].id, th[c].hit)]
    /\ lock' = [lock EXCEPT ![th[c].id] = 0]
    /\ th' = [th EXCEPT ![c] = Idle(Decode(th[c].id, th[c].hit), "Read")]
    /\ panic' = panic

\* Feature::deserialize: *feature.value.lock().unwrap() = value on the Feature
\* found in a registry built by this call
LkDeserialize(c, id, value) ==
    /\ panic = "none"
    /\ th[c].pc = "idle"
    /\ lock[LocalMutex(c)] = 0
    /\ lock' = [lock EXCEPT ![LocalMutex(c)] = c]
    /\ th' = [th EXCEPT ![c] = [pc |-> "deserialize", op |-> "deserialize", id |-> id,
                                 arg |-> value, attempt |-> 0, hit |-> NoResp,
                                 ret |-> 0, log |-> ""]]
    /\ UNCHANGED <<values, panic>>

\* the end of that assignment drops the guard; feature.clone() comes next
LkDeserialized(c) ==
    /\ panic = "none"
    /\ th[c].pc = "deserialize"
    /\ lock' = [lock EXCEPT ![LocalMutex(c)] = 0]
    /\ th' = [th EXCEPT ![c] = At(c, "clone")]
    /\ UNCHANGED <<values, panic>>

\* Feature::clone: self.value.lock().unwrap()
LkClone(c) ==
    /\ panic = "none"
    /\ th[c].pc = "clone"
    /\ lock[LocalMutex(c)] = 0
    /\ lock' = [lock EXCEPT ![LocalMutex(c)] = c]
    /\ th' = [th EXCEPT ![c] = At(c, "cloning")]
    /\ UNCHANGED <<values, panic>>

\* Mutex::new(*guard): the value is copied and the guard dropped
LkCloned(c) ==
    /\ panic = "none"
    /\ th[c].pc = "cloning"
    /\ lock' = [lock EXCEPT ![LocalMutex(c)] = 0]
    /\ th' = [th EXCEPT ![c] = Idle(th[c].arg, "deserialized")]
    /\ UNCHANGED <<values, panic>>

DeserializedValues == {0, 100}

\* Feature::value and Feature::clone of a Feature of the global registry are
\* LockValue and UnlockValue
LocksNext ==
    (\/ \E c \in Callers, id \in LockIds : LkGet(c, id)
     \/ \E c \in Callers : LkLockTransport(c)
     \/ \E c \in Callers, ok \in BOOLEAN : LkWrite(c, ok)
     \/ \E c \in Callers, rx \in LockOutcomes : LkRead(c, rx)
     \/ \E c \in Callers : LkLockValue(c)
     \/ \E c \in Callers : LkAssign(c)
     \/ \E c \in Callers, id \in LockIds : LockValue(c, "value", id, 0)
     \/ \E c \in Callers : UnlockValue(c)
     \/ \E c \in Callers, id \in LockIds, value \in DeserializedValues :
            LkDeserialize(c, id, value)
     \/ \E c \in Callers : LkDeserialized(c)
     \/ \E c \in Callers : LkClone(c)
     \/ \E c \in Callers : LkCloned(c))
    /\ UNCHANGED <<engineVars, obs, hid, pureVars>>

\* ------------------------------------------------------------------------
\* SpecRegistry: queries of the two registries
\*   "features.rs"  FeatureId::dependencies / FeatureId::dependents
\*   "lib.rs"       FEATURES[..].dependencies / BlasterXG6::get_dependents

\* the features x requires, in the registry named
Requires(registry, x) ==
    IF registry = "lib.rs" THEN Entry(x).dependencies ELSE dependencies(x)

\* the features to handle when x changes, in the registry named
RequiredBy(registry, x) ==
    IF registry = "lib.rs" THEN get_dependents(x) ELSE dependents(x)

Members(registry) == IF registry = "lib.rs" THEN Names ELSE FeatureId

Elems(q) == {q[i] : i \in 1..Len(q)}

Max(S) == CHOOSE x \in S : \A y \in S : y <= x

\* the length of the longest chain of requirements that starts at x; the walk
\* gives up after fuel steps, which only a cycle can use up
RECURSIVE ChainDepth(_, _, _)
ChainDepth(registry, x, fuel) ==
    IF Requires(registry, x) = <<>> THEN 0
    ELSE IF fuel = 0 THEN 1
    ELSE 1 + Max({ChainDepth(registry, d, fuel - 1) : d \in Elems(Requires(registry, x))})

\* more steps than any chain without a repetition can have
Fuel(registry) == Cardinality(Members(registry))

\* the managed call that writes x, made with every toggle off and a
\* transport that accepts every write: the walk over all requirements of x
Walk(x) ==
    IF Entry(x).kind = "Toggle"
    THEN set_feature(Machine(InitialFeatures), x, "On", {})
    ELSE set_slider(Machine(InitialFeatures), x, 0, {})

\* Feature::dsp(id), lines 437-444
DspFeature_zeroed(id) == [id |-> id, value |-> 0, getter |-> "dsp_get", setter |-> "dsp_set"]

DspFeature(id) == [id |-> id, value |-> NaN, getter |-> "dsp_get", setter |-> "dsp_set"]

\* Feature { id, value: Mutex::new(f32::NAN), getter, setter }
ManualFeature(id, getter, setter) ==
    [id |-> id, value |-> NaN, getter |-> getter, setter |-> setter]

\* all_features(): the Vec<Feature>, in the order of the source
AllFeaturesVec == <<
    DspFeature("SurroundToggle"), DspFeature("SurroundLevel"),
    DspFeature("SurroundDistance"),
    DspFeature("DialogPlusToggle"), DspFeature("DialogPlusLevel"),
    DspFeature("SmartVolToggle"), DspFeature("SmartVolLevel"), DspFeature("SmartVolMode"),
    DspFeature("CrystalizerToggle"), DspFeature("CrystalizerLevel"),
    DspFeature("BassToggle"), DspFeature("BassLevel"),
    DspFeature("EqToggle"), DspFeature("EqPreAmp"),
    DspFeature("Eq31Hz"), DspFeature("Eq62Hz"), DspFeature("Eq125Hz"),
    DspFeature("Eq250Hz"), DspFeature("Eq500Hz"), DspFeature("Eq1kHz"),
    DspFeature("Eq2kHz"), DspFeature("Eq4kHz"), DspFeature("Eq8kHz"),
    DspFeature("Eq16kHz"),
    ManualFeature("SbxMaster", "global_profile_get", "global_profile_set"),
    ManualFeature("ScoutMode", "global_profile_get", "global_profile_set"),
    ManualFeature("Output", "output_get", "output_set") >>

\* the entries of the registry built for the feature x
EntriesOf(x) == SelectSeq(AllFeaturesVec, LAMBDA f : f.id = x)

\* a variant of the address that keeps the low four bits of the feature byte
Address_low_bits(registry, x) ==
    IF registry = "features.rs"
    THEN IF dsp_address(x).some
         THEN Some(dsp_address(x).family, dsp_address(x).feature_id % 16)
         ELSE None
    ELSE IF Entry(x).fmt = "SBX" THEN Some(150, Entry(x).id % 16) ELSE None

\* the generic protocol address of x: FeatureId::dsp_address, or Format::SBX(id)
\* of the entry of FEATURES, whose family byte create_payload writes as 0x96
Address(registry, x) ==
    IF registry = "features.rs" THEN dsp_address(x)
    ELSE IF Entry(x).fmt = "SBX" THEN Some(150, Entry(x).id) ELSE None

NoQuery ==
    [registry |-> "none", a |-> "", b |-> "", dependencies |-> <<>>,
     dependents |-> <<>>, depth |-> 0, walk |-> "none", nest |-> 0, writes |-> 0,
     address |-> None, address_b |-> None, entries |-> <<>>]

\* ask for the dependencies, the address and the registry entries of a and the
\* dependents and the address of b, w being the walk
\* over the requirements of a; the registries are constant, so one question
\* from the initial state shows every answer
Query(registry, a, b, w) ==
    /\ reg = NoQuery
    /\ reg' = [registry |-> registry, a |-> a, b |-> b,
               dependencies |-> Requires(registry, a),
               dependents |-> RequiredBy(registry, b),
               depth |-> ChainDepth(registry, a, Fuel(registry)),
               walk |-> IF registry = "lib.rs" THEN w.res ELSE "none",
               nest |-> w.nest,
               writes |-> Len(WriteLog(w.sent)),
               address |-> Address(registry, a),
               address_b |-> Address(registry, b),
               entries |-> IF registry = "features.rs" THEN EntriesOf(a) ELSE <<>>]

QueryFeatureIds ==
    \E a \in FeatureId, b \in FeatureId :
        Query("features.rs", a, b, Machine(InitialFeatures))

\* the names asked about together with a: itself, a master and a gating toggle
Partners(a) == {a, "SBX", "Equalizer"}

QueryNames == \E a \in Names : \E b \in Partners(a) : Query("lib.rs", a, b, Walk(a))

RegistryNext ==
    (QueryFeatureIds \/ QueryNames) /\ UNCHANGED <<engineVars, ioVars, wire, cap>>

\* ------------------------------------------------------------------------
\* SpecWire: the packets byte by byte
\* An f32 is its four bytes, most significant first: <<63, 128, 0, 0>> is 1.0.
\* A buffer is a sequence of bytes; offset k of the code is index k + 1.

\* v / 100.0 on the values the model draws, each with its correctly rounded
\* quotient
DivisionTable == <<
    << <<0, 0, 0, 0>>,     <<0, 0, 0, 0>> >>,          \* 0.0   -> 0.0
    << <<63, 0, 0, 0>>,    <<59, 163, 215, 10>> >>,    \* 0.5   -> 0.005
    << <<63, 128, 0, 0>>,  <<60, 35, 215, 10>> >>,     \* 1.0   -> 0.01
    << <<64, 64, 0, 0>>,   <<60, 245, 194, 143>> >>,   \* 3.0   -> 0.03
    << <<66, 72, 0, 0>>,   <<63, 0, 0, 0>> >>,         \* 50.0  -> 0.5
    << <<66, 200, 0, 0>>,  <<63, 128, 0, 0>> >>,       \* 100.0 -> 1.0
    << <<192, 64, 0, 0>>,  <<188, 245, 194, 143>> >>,  \* -3.0  -> -0.03
    << <<127, 192, 0, 0>>, <<127, 192, 0, 0>> >> >>    \* NaN   -> NaN

Dividends == {DivisionTable[i][1] : i \in 1..Len(DivisionTable)}

DivBy100(v) ==
    DivisionTable[CHOOSE i \in 1..Len(DivisionTable) : DivisionTable[i][1] = v][2]

\* further bit patterns: -0.0, the smallest subnormal, a NaN with a payload,
\* 0.03 and a pattern of four different bytes
WireValues ==
    Dividends \cup {<<128, 0, 0, 0>>, <<0, 0, 0, 1>>, <<255, 255, 255, 255>>,
                    <<60, 245, 194, 143>>, <<1, 2, 3, 4>>}

\* a variant that emits the most significant byte first
to_be_bytes(v) == v

\* f32::to_le_bytes
to_le_bytes(v) == <<v[4], v[3], v[2], v[1]>>

\* a variant that takes the first byte as the most significant
from_be_bytes(b) == b

\* f32::from_le_bytes
from_le_bytes(b) == <<b[4], b[3], b[2], b[1]>>

\* [0u8; n] with the bytes of head at offsets 0..
Buffer(n, head) == [i \in 1..n |-> IF i <= Len(head) THEN head[i] ELSE 0]

\* create_payload for Format::SBX(id): the data and the commit buffer
create_payload_sbx(id, value) ==
    LET effective == IF id >= EqIdLow /\ id <= EqIdHigh THEN value ELSE DivBy100(value)
    IN  [data   |-> Buffer(65, <<0, 90, 18, 7, 1, 150, id>> \o to_le_bytes(effective)),
         commit |-> Buffer(65, <<0, 90, 17, 3, 1, 150, id, 0, 0, 0, 0>>)]

\* the payload dsp_set writes
dsp_set_payload(id, value) ==
    Buffer(65, <<0, 90, 18, 7, 1, dsp_address(id).family, dsp_address(id).feature_id>>
               \o to_le_bytes(value))

\* the payload dsp_get writes
dsp_get_payload(id) ==
    Buffer(65, <<0, 90, 17, 3, 1, dsp_address(id).family, dsp_address(id).feature_id>>)

\* the report the device answers a query with when it holds the value bytes
\* of the write packet data: 5a 11 08 01 00 [family] [id] [f32 LE x 4]
Echo(data) ==
    Buffer(64, <<90, 17, 8, 1, 0, data[6], data[7]>> \o SubSeq(data, 8, 11))

\* what dsp_get looks at in a report: bytes 0, 1, 5, 6 and the f32 of 7..11
Parsed(response) ==
    Resp(response[1], response[2], response[5], response[6], response[7],
         from_le_bytes(SubSeq(response, 8, 11)))

\* the SBX ids of FEATURES and the DSP features of FeatureId
SbxIds == {FEATURES[i].id : i \in {j \in 1..Len(FEATURES) : FEATURES[j].fmt = "SBX"}}
DspIds == {id \in FeatureId : dsp_address(id).some}

NoWire ==
    [stage |-> "none", enc |-> "none", id |-> 0, byte |-> 0, value |-> <<0, 0, 0, 0>>,
     data |-> <<>>, commit |-> <<>>, response |-> <<>>, ret |-> <<>>, cached |-> <<>>,
     decoded |-> <<>>]

\* ------------------------------------------------------------------------
\* SpecSniffer: the capture decoder (src/sniffer/src/main.rs)
\* d is a block's data from offset 64 on (the 64 bytes before it are the URB
\* header); offset k of the code is d[k + 1].  A String is the sequence of
\* its pieces.  A value built on a path that indexes outside the buffer has
\* panicked = TRUE: the process would have stopped there.

HexDigits == <<"0", "1", "2", "3", "4", "5", "6", "7",
               "8", "9", "a", "b", "c", "d", "e", "f">>

\* format!("{:#04x}", b)
hb(b) == <<"0x", HexDigits[(b \div 16) + 1], HexDigits[(b % 16) + 1]>>

\* the bytes' hb forms, joined by ", "
hbs(v) == [i \in 1..Len(v) |-> hb(v[i])]

Min(a, b) == IF a <= b THEN a ELSE b

\* d.get(i).copied().unwrap_or(0)
g(d, i) == IF i < Len(d) THEN d[i + 1] ELSE 0

\* hbs(&d[from.min(d.len())..])
tail(d, from) == hbs(SubSeq(d, Min(from, Len(d)) + 1, Len(d)))

\* d[i] and d[a..b] are inside the buffer
InBounds(d, i) == i < Len(d)

SliceInBounds(d, a, b) == a <= b /\ b <= Len(d)

Index(d, i) == IF InBounds(d, i) THEN d[i + 1] ELSE 0

Slice(d, a, b) == IF SliceInBounds(d, a, b) THEN SubSeq(d, a + 1, b) ELSE <<>>

\* (3 + len).min(d.len())
End(d, len) == Min(3 + len, Len(d))

DspFeatureNames == <<
    "SurroundToggle", "SurroundLevel", "DialogPlusToggle", "DialogPlusLevel",
    "SmartVolToggle", "SmartVolLevel", "SmartVolMode", "CrystalizerToggle",
    "CrystalizerLevel", "EqToggle", "EqPreAmp", "Eq31Hz", "Eq62Hz", "Eq125Hz",
    "Eq250Hz", "Eq500Hz", "Eq1kHz", "Eq2kHz", "Eq4kHz", "Eq8kHz", "Eq16kHz">>

dsp_feature_name(id) ==
    IF id < Len(DspFeatureNames) THEN <<DspFeatureNames[id + 1]>>
    ELSE IF id = 23 THEN <<"SurroundDistance">>
    ELSE IF id = 24 THEN <<"BassToggle">>
    ELSE IF id = 25 THEN <<"BassLevel">>
    ELSE <<"Unknown_">> \o hb(id)

\* FeatureEntry { family: "?", name: "?", value: None }
UnreadableEntry == [family |-> <<"?">>, name |-> <<"?">>, value |-> <<>>, panicked |-> FALSE]

feature_raw(family, id, f32_bytes) ==
    [family |-> hb(family),
     name |-> IF family = 150 THEN dsp_feature_name(id) ELSE <<"id_">> \o hb(id),
     value |-> <<from_le_bytes(f32_bytes)>>,
     panicked |-> FALSE]

feature_at(d, off) ==
    IF off + 6 > Len(d) THEN UnreadableEntry
    ELSE [feature_raw(Index(d, off), Index(d, off + 1),
                      <<Index(d, off + 2), Index(d, off + 3),
                        Index(d, off + 4), Index(d, off + 5)>>)
            EXCEPT !.panicked = \E i \in off..(off + 5) : ~InBounds(d, i)]

\* the loop of the 0x11 arm: count rounds, a record pushed only where six
\* more bytes are left.  A round that finds the buffer short pushes nothing
\* and leaves off as it is, so every round after it does the same.
RECURSIVE StatusFeatures_every_round(_, _, _)
StatusFeatures_every_round(d, count, off) ==
    IF count = 0 THEN <<>>
    ELSE <<feature_at(d, off)>> \o StatusFeatures_every_round(d, count - 1, off + 6)

RECURSIVE StatusFeatures(_, _, _)
StatusFeatures(d, count, off) ==
    IF count = 0 THEN <<>>
    ELSE IF off + 6 <= Len(d)
         THEN <<feature_at(d, off)>> \o StatusFeatures(d, count - 1, off + 6)
         ELSE <<>>

\* f32::from_le_bytes(d[i..i+4].try_into().unwrap())
f32_at(d, i) ==
    IF SliceInBounds(d, i, i + 4) THEN from_le_bytes(Slice(d, i, i + 4))
    ELSE <<0, 0, 0, 0>>

BulkRangeEntry(d, off) ==
    [family |-> hb(Index(d, off)),
     id |-> hb(Index(d, off + 1)),
     max |-> f32_at(d, off + 2),
     min |-> f32_at(d, off + 6),
     step |-> f32_at(d, off + 10),
     panicked |-> \/ ~InBounds(d, off)
                  \/ ~InBounds(d, off + 1)
                  \/ \E i \in {off + 2, off + 6, off + 10} : ~SliceInBounds(d, i, i + 4)]

\* the loop of the 0x15 arm, fourteen bytes to a record, the rounds after a
\* short one doing nothing as in the 0x11 arm
RECURSIVE BulkEntries_one_byte_short(_, _, _)
BulkEntries_one_byte_short(d, count, off) ==
    IF count = 0 THEN <<>>
    ELSE IF off + 13 <= Len(d)
         THEN <<BulkRangeEntry(d, off)>>
              \o BulkEntries_one_byte_short(d, count - 1, off + 14)
         ELSE <<>>

RECURSIVE BulkEntries(_, _, _)
BulkEntries(d, count, off) ==
    IF count = 0 THEN <<>>
    ELSE IF off + 14 <= Len(d)
         THEN <<BulkRangeEntry(d, off)>> \o BulkEntries(d, count - 1, off + 14)
         ELSE <<>>

AnyPanicked(entries) == \E i \in 1..Len(entries) : entries[i].panicked

\* an SbCommand: the variant, its fields, and whether building it panicked
SbCommand(type, fields) == [type |-> type, fields |-> fields, panicked |-> FALSE]

Sliced(type, field, d, len) ==
    [type |-> type,
     fields |-> [f \in {field} |-> hbs(Slice(d, 3, End(d, len)))],
     panicked |-> ~SliceInBounds(d, 3, End(d, len))]

Unknown(cmd, raw) == SbCommand("Unknown", [cmd |-> hb(cmd), raw |-> raw])

output_str(mode) ==
    IF mode = 2 THEN <<"Speakers">>
    ELSE IF mode = 4 THEN <<"Headphones">>
    ELSE hb(mode)

FilterNames == <<
    "Fast Roll-off, Minimum Phase", "Slow Roll-off, Minimum Phase",
    "NOS (Non-Oversampling)", "Fast Roll-off, Linear Phase",
    "Slow Roll-off, Linear Phase">>

filter_str(f) == IF f \in 1..Len(FilterNames) THEN <<FilterNames[f]>> ELSE hb(f)

GlobalProfile(len, d) ==
    IF g(d, 3) = 8 /\ len = 3 THEN SbCommand("GlobalProfileRequest", <<>>)
    ELSE IF g(d, 3) = 8 THEN
        SbCommand("GlobalProfileResponse",
                  [sbx_master |-> BitSet(g(d, 6), 1),
                   scout_mode |-> BitSet(g(d, 6), 2),
                   eq_enable |-> BitSet(g(d, 6), 4)])
    ELSE IF g(d, 3) = 7 THEN
        SbCommand("GlobalProfileWrite",
                  [feature |-> IF g(d, 4) = 1 THEN "SBX Master"
                               ELSE IF g(d, 4) = 2 THEN "Scout Mode"
                               ELSE "Unknown",
                   enabled |-> g(d, 6) # 0])
    ELSE Unknown(38, tail(d, 3))

OutputSelect(len, d) ==
    IF g(d, 3) = 1 /\ len = 1 THEN SbCommand("OutputSelectReadRequest", <<>>)
    ELSE IF g(d, 3) = 1 THEN
        SbCommand("OutputSelectReadResponse", [output |-> output_str(g(d, 4))])
    ELSE IF g(d, 3) = 0 THEN
        SbCommand("OutputSelectWrite", [output |-> output_str(g(d, 4))])
    ELSE IF g(d, 3) = 2 THEN
        SbCommand("OutputSelectEnumerate", [raw |-> tail(d, 4)])
    ELSE Unknown(44, tail(d, 3))

DirectMode(len, d) ==
    IF len = 3 /\ g(d, 3) = 0 THEN
        SbCommand("DirectModeSet", [enabled |-> g(d, 5) = 1])
    ELSE IF g(d, 3) = 1 /\ len <= 2 THEN SbCommand("DirectModeCommit", <<>>)
    ELSE IF len = 1 /\ g(d, 3) = 2 THEN SbCommand("DirectModeReadRequest", <<>>)
    ELSE IF g(d, 3) = 2 THEN Sliced("DirectModeReadResponse", "raw", d, len)
    ELSE IF g(d, 3) \in {4, 5} THEN
        SbCommand("DirectModeUnsupported", [sub |-> hb(g(d, 3))])
    ELSE Unknown(57, tail(d, 3))

GainConfig(len, d) ==
    IF len = 2 THEN SbCommand("GainConfigRequest", <<>>)
    ELSE IF len = 4 THEN SbCommand("GainConfigResponse", [gain |-> hb(g(d, 5))])
    ELSE Unknown(60, tail(d, 3))

DacFilter(len, d) ==
    IF g(d, 3) = 1 /\ len = 1 THEN SbCommand("DacFilterReadRequest", <<>>)
    ELSE IF g(d, 3) = 1 THEN
        SbCommand("DacFilterReadResponse", [filter |-> filter_str(g(d, 4))])
    ELSE IF g(d, 3) = 0 THEN
        SbCommand("DacFilterWrite", [filter |-> filter_str(g(d, 4))])
    ELSE IF g(d, 3) = 2 /\ len = 1 THEN SbCommand("DacFilterEnumerateRequest", <<>>)
    ELSE IF g(d, 3) = 2 THEN
        SbCommand("DacFilterEnumerateResponse", [raw |-> tail(d, 4)])
    ELSE Unknown(108, tail(d, 3))

decode_sb(cmd, len, d) ==
    CASE cmd = 2 -> SbCommand("DeviceAck", [echoed_cmd |-> hb(g(d, 3))])
      [] cmd = 5 ->
            IF len = 0 THEN SbCommand("DeviceIdentifyRequest", <<>>)
            ELSE SbCommand("DeviceIdentifyResponse", [flags |-> hb(g(d, 3))])
      [] cmd = 6 -> SbCommand("Ping", <<>>)
      [] cmd = 7 ->
            IF len = 1 THEN SbCommand("GetFirmwareStringRequest", [typ |-> hb(g(d, 3))])
            ELSE Sliced("GetFirmwareStringResponse", "firmware", d, len)
      [] cmd = 16 ->
            IF len = 0 THEN SbCommand("GetSerialRequest", <<>>)
            ELSE Sliced("GetSerialResponse", "serial", d, len)
      [] cmd = 17 ->
            IF len = 3 THEN
                SbCommand("StatusRequest",
                          [family |-> hb(g(d, 4)), feature_id |-> hb(g(d, 5))])
            ELSE LET features_ == StatusFeatures(d, g(d, 3), 5)
                 IN  [type |-> "StatusResponse",
                      fields |-> [features |-> features_],
                      panicked |-> AnyPanicked(features_)]
      [] cmd = 18 /\ len = 7 ->
            SbCommand("WriteSingleFeature",
                      [feature |-> IF Len(d) >= 11
                                   THEN feature_raw(g(d, 4), g(d, 5),
                                                    <<g(d, 7), g(d, 8), g(d, 9), g(d, 10)>>)
                                   ELSE UnreadableEntry])
      [] cmd = 21 ->
            IF len = 1 THEN SbCommand("BulkRangeDumpRequest", <<>>)
            ELSE LET entries == BulkEntries(d, g(d, 4), 5)
                 IN  [type |-> "BulkRangeDump",
                      fields |-> [count |-> g(d, 4), entries |-> entries],
                      panicked |-> AnyPanicked(entries)]
      [] cmd = 32 ->
            IF len = 0 THEN SbCommand("GetHardwareIdRequest", <<>>)
            ELSE SbCommand("GetHardwareIdResponse", [hw_id |-> hb(g(d, 3))])
      [] cmd = 38 -> GlobalProfile(len, d)
      [] cmd = 44 -> OutputSelect(len, d)
      [] cmd = 48 ->
            IF len = 0 THEN SbCommand("GetDspVersionRequest", <<>>)
            ELSE Sliced("GetDspVersionResponse", "version", d, len)
      [] cmd = 57 -> DirectMode(len, d)
      [] cmd = 58 -> SbCommand("Capabilities", [sub |-> hb(g(d, 3))])
      [] cmd = 60 -> GainConfig(len, d)
      [] cmd = 108 -> DacFilter(len, d)
      [] cmd = 110 -> SbCommand("Notification", [sub |-> hb(g(d, 3))])
      [] OTHER -> Unknown(cmd, tail(d, 0))

NoCommand == SbCommand("", <<>>)

\* a variant that hands decode_sb the declared length as the command byte
parse_data_fragment_swapped(d) ==
    IF Len(d) < 3 \/ d[1] # 90
    THEN [kind |-> "Other", other |-> hbs(d), command |-> NoCommand]
    ELSE [kind |-> "SbProtocol", other |-> <<>>, command |-> decode_sb(d[3], d[2], d)]

\* a variant that hands decode_sb the number of payload bytes present instead
\* of the declared length
parse_data_fragment_payload_length(d) ==
    IF Len(d) < 3 \/ d[1] # 90
    THEN [kind |-> "Other", other |-> hbs(d), command |-> NoCommand]
    ELSE [kind |-> "SbProtocol", other |-> <<>>, command |-> decode_sb(d[2], Len(d) - 3, d)]

parse_data_fragment(d) ==
    IF Len(d) < 3 \/ d[1] # 90
    THEN [kind |-> "Other", other |-> hbs(d), command |-> NoCommand]
    ELSE [kind |-> "SbProtocol", other |-> <<>>, command |-> decode_sb(d[2], d[3], d)]

\* the blocks a capture is drawn from: a header of magic, command, declared
\* length, sub-command and one more byte, then a run of one payload byte, cut
\* at every length up to MaxFrame
MaxFrame == 33

MagicBytes == {90, 0}

CommandBytes == {2, 5, 6, 7, 16, 17, 18, 21, 32, 38, 44, 48, 57, 58, 60, 108, 110, 153}

LengthBytes == {0, 1, 2, 3, 4, 7, 8}

SubBytes == {0, 1, 2, 4, 7, 8, 9}

FifthBytes == {0, 1, 2, 150}

FillBytes == {0, 1, 150}

Block(n, head, fill) == [i \in 1..n |-> IF i <= Len(head) THEN head[i] ELSE fill]

NoCapture == [stage |-> "idle", d |-> <<>>, out |-> [kind |-> "", other |-> <<>>, command |-> NoCommand]]

\* parse_file: the next block of the capture; a block without the magic byte
\* at offset 64 is skipped
ReadBlock ==
    /\ cap.stage = "idle"
    /\ \E n \in 0..MaxFrame, magic \in MagicBytes, cmd \in CommandBytes,
          len \in LengthBytes, sub \in SubBytes, fifth \in FifthBytes,
          fill \in FillBytes :
          LET d == Block(n, <<magic, cmd, len, sub, fifth>>, fill)
          IN  IF Len(d) >= 1 /\ d[1] = 90
              THEN cap' = [cap EXCEPT !.stage = "captured", !.d = d]
              ELSE UNCHANGED cap

\* parse_packet_urb: data_fragment = Some(parse_data_fragment(packet))
ParsePacketUrb ==
    /\ cap.stage = "captured"
    /\ cap' = [cap EXCEPT !.stage = "decoded", !.out = parse_data_fragment(cap.d)]

SnifferNext ==
    (ReadBlock \/ ParsePacketUrb) /\ UNCHANGED <<engineVars, ioVars, reg, wire>>

\* ------------------------------------------------------------------------
\* SpecWire: the write of a generic feature, its decoding and its read back

\* BlasterXG6 builds the packets of a generic write
WireCreatePayload ==
    \E id \in SbxIds, value \in Dividends :
        wire' = [NoWire EXCEPT !.stage = "written", !.enc = "create_payload",
                               !.id = id, !.byte = id, !.value = value,
                               !.data = create_payload_sbx(id, value).data,
                               !.commit = create_payload_sbx(id, value).commit,
                               !.decoded = parse_data_fragment(
                                   SubSeq(create_payload_sbx(id, value).data, 2, 65)).command]

\* Feature::write_to_device of a DSP feature; commit is the query of the same
\* feature, which dsp_get builds; decoded is what the capture decoder makes of
\* the write packet from offset 1 on, after the report id
WireDspSet ==
    \E id \in DspIds, value \in WireValues :
        wire' = [NoWire EXCEPT !.stage = "written", !.enc = "dsp_set",
                               !.id = id, !.byte = dsp_address(id).feature_id,
                               !.value = value,
                               !.data = dsp_set_payload(id, value),
                               !.commit = dsp_get_payload(id),
                               !.decoded = parse_data_fragment(
                                   SubSeq(dsp_set_payload(id, value), 2, 65)).command]

\* Feature::read_from_device of the feature just written, answered by the echo
WireDspGet ==
    /\ wire.stage = "written"
    /\ wire.enc = "dsp_set"
    /\ LET response == Echo(wire.data)
           r == Parsed(response)
       IN  /\ DspMatch(wire.id, r)
           /\ wire' = [wire EXCEPT !.stage = "read", !.response = response,
                                   !.ret = Decode(wire.id, r),
                                   !.cached = Decode(wire.id, r)]

WireNext ==
    (WireCreatePayload \/ WireDspSet \/ WireDspGet) /\ UNCHANGED <<engineVars, ioVars, reg, cap>>

\* ------------------------------------------------------------------------
\* SpecCodes: the global-profile and output-select exchanges byte by byte,
\* each report read both by its getter (features.rs) and by the capture
\* decoder.  The getters' results are 1.0 = 100, 0.0 = 0 and NaN, as in the
\* layers above.

ProfileIds == {"SbxMaster", "ScoutMode"}

Bytes == 0..255

\* the declared lengths of a global-profile report: a request's, a write's, a
\* response's
ProfileLengths == {3, 5, 11}

\* the values an output write is called with: 0.0, 0.5, 1.0, NaN
OutputValues == {0, 50, 100, NaN}

\* the payload output_set writes
output_set_payload(value) ==
    Buffer(65, <<0, 90, 44, 5, 0, IF value > 0 THEN 4 ELSE 2, 0, 0, 0>>)

\* the payload output_get writes
output_get_payload == Buffer(65, <<0, 90, 44, 1, 1>>)

\* global_profile_get reads the report 5a 26 [len] 08 ff ff [bitmask]
WireGlobalProfileGet ==
    /\ wire.stage = "none"
    /\ \E id \in ProfileIds, len \in ProfileLengths, bitmask \in Bytes :
          LET response == Buffer(64, <<90, 38, len, 8, 255, 255, bitmask>>)
              r == Parsed(response)
          IN  /\ GlobalProfileMatch(r)
              /\ wire' = [NoWire EXCEPT !.stage = "read", !.enc = "global_profile_get",
                                        !.id = id, !.byte = bitmask,
                                        !.response = response,
                                        !.ret = Decode(id, r),
                                        !.cached = Decode(id, r),
                                        !.decoded = parse_data_fragment(response).command]

\* output_set writes its packet; the decoder reads it from offset 1 on, after
\* the report id
WireOutputSet ==
    /\ wire.stage = "none"
    /\ \E value \in OutputValues :
          LET data == output_set_payload(value)
          IN  wire' = [NoWire EXCEPT !.stage = "written", !.enc = "output_set",
                                    !.id = "Output", !.byte = data[6],
                                    !.value = value, !.data = data,
                                    !.commit = output_get_payload,
                                    !.decoded =
                                        parse_data_fragment(SubSeq(data, 2, 65)).command]

\* output_get reads the report 5a 2c 05 01 [route]
WireOutputGet ==
    /\ wire.stage = "none"
    /\ \E route \in Bytes :
          LET response == Buffer(64, <<90, 44, 5, 1, route>>)
              r == Parsed(response)
          IN  /\ OutputMatch(r)
              /\ wire' = [NoWire EXCEPT !.stage = "read", !.enc = "output_get",
                                        !.id = "Output", !.byte = route,
                                        !.response = response,
                                        !.ret = Decode("Output", r),
                                        !.cached = Decode("Output", r),
                                        !.decoded = parse_data_fragment(response).command]

CodesNext ==
    (WireGlobalProfileGet \/ WireOutputSet \/ WireOutputGet)
        /\ UNCHANGED <<engineVars, ioVars, reg, cap>>

\* ------------------------------------------------------------------------
\* Properties of the device operations (features.rs), one caller

\* the last read_packet call of the operation returned a packet that the
\* operation's test accepts
Hit == obs.rx.kind = "packet" /\ Matches(obs.op, obs.id, obs.rx.pkt)

\* the operation made all its read_packet calls and none returned a match
Exhausted ==
    /\ obs.op \in {"get", "set"}
    /\ obs.nread = MAX_READ_ATTEMPTS
    /\ ~Hit

\* what the caller logged says the last packet was taken as the answer
Accepted == th[1].log \in {"Read", "ACK received"}

\* C4: the process terminates only on a cached toggle value that is neither
\* 0.0 nor 1.0; in particular no transport failure terminates it.
C4_OnlyInvalidToggleTerminates ==
    panic \in {"none", "invalid toggle value"}

\* C5: an operation that exhausts its attempt bound without a matching
\* response returns normally and leaves the target's cached value as it was
\* before the operation.
C5_ExhaustedLeavesCache ==
    Exhausted =>
        /\ th[1].pc = "idle"
        /\ panic = "none"
        /\ values[obs.id] = obs.pre[obs.id]

C5_Witness ==
    /\ Exhausted
    /\ obs.op = "get"
    /\ obs.id = "Eq1kHz"
    /\ obs.pre["Eq1kHz"] = 300
    /\ values["Eq1kHz"] = 300
    /\ th[1].pc = "idle"
    /\ th[1].log = "No matching response"

\* C6: a read that exhausts its attempt bound returns the value the cache
\* held before the operation.
C6_ExhaustedReturnsCached ==
    (Exhausted /\ obs.op = "get") => th[1].ret = obs.pre[obs.id]

\* C7: every getter and setter transmits exactly one packet, then makes at
\* most MAX_READ_ATTEMPTS read_packet calls, counting timeouts, errors and
\* non-matching packets alike; it makes no read after a matching packet, does
\* not give up before the bound, and while it polls the number of reads made
\* is the loop counter, below the bound (so the loop ends).
C7_OneTransmitBoundedReads ==
    obs.op \in {"get", "set"} =>
        /\ Len(obs.tx) = 1
        /\ obs.nread <= 30
        /\ Hit => th[1].pc # "poll"
        /\ th[1].pc = "poll" => (obs.nread < 30 /\ th[1].attempt = obs.nread)
        /\ (th[1].pc = "idle" /\ ~Hit) => obs.nread = 30

C7_Witness ==
    /\ obs.op = "get"
    /\ Len(obs.tx) = 1
    /\ obs.nread = 30
    /\ Hit
    /\ th[1].pc = "store"

\* C8: a packet is accepted as the answer to a generic read iff it has the
\* magic byte 0x5a, command 0x11 and the family and feature bytes of the
\* request; a write is acknowledged iff the packet is (0x5a, 0x02); a
\* global-profile or output read accepts iff the packet has the magic byte
\* and the command of the request (0x26 / 0x2c).
C8_AcceptedIff ==
    (obs.op \in {"get", "set"} /\ obs.rx.kind = "packet") =>
        LET r == obs.rx.pkt
            q == obs.tx[1]
        IN  Accepted <=>
                IF obs.op = "set" THEN r.r0 = 90 /\ r.r1 = 2
                ELSE IF q.b2 = 17
                     THEN r.r0 = 90 /\ r.r1 = 17 /\ r.r5 = q.b5 /\ r.r6 = q.b6
                     ELSE q.b2 \in {38, 44} /\ r.r0 = 90 /\ r.r1 = q.b2

C8_Witness ==
    /\ obs.op = "get"
    /\ obs.id = "Eq1kHz"
    /\ obs.rx = Received(Resp(90, 17, 0, 151, 16, 300))
    /\ th[1].log = "Discarded"
    /\ th[1].pc = "poll"

\* C9: a packet that does not match is discarded: no cached value changes,
\* the poll goes on (unless the bound is reached) and nothing fails; the
\* cache changes only by a matching packet of a read, and only for the
\* feature that is read.
C9_NonMatchingDiscarded ==
    /\ (obs.op \in {"get", "set"} /\ obs.rx.kind = "packet" /\ ~Hit) =>
          /\ values = obs.pre
          /\ panic = "none"
          /\ obs.nread < MAX_READ_ATTEMPTS => th[1].pc = "poll"
    /\ values # obs.pre =>
          /\ obs.op = "get"
          /\ Hit
          /\ \A j \in FeatureId \ {obs.id} : values[j] = obs.pre[j]

C9_Witness ==
    /\ obs.op = "get"
    /\ obs.id = "Eq1kHz"
    /\ obs.rx = Received(Resp(90, 17, 0, 150, 17, 300))
    /\ obs.pre["Eq1kHz"] = 100
    /\ values = obs.pre
    /\ th[1].pc = "poll"

\* ------------------------------------------------------------------------
\* Properties of the device operations, two callers

\* a caller between its transmission and the end of its polling loop
InFlight(c) == th[c].pc = "poll"

\* C27: the boolean reading of a cached value is false exactly when the value
\* is 0.0 and true exactly when it is 1.0; for every other value, the initial
\* NaN included, the process panics and no boolean is returned.
C27_AsBoolExact ==
    obs.op = "as_bool" =>
        LET value == obs.pre[obs.id]
        IN  /\ values = obs.pre
            /\ value = 0 =>
                  panic = "none" /\ th[1].log = "as_bool" /\ th[1].ret = 0
            /\ value = 100 =>
                  panic = "none" /\ th[1].log = "as_bool" /\ th[1].ret = 1
            /\ value \notin {0, 100} =>
                  panic = "invalid toggle value"

\* as_bool panicked on a cached 3.0
C27_Witness ==
    /\ obs.op = "as_bool"
    /\ obs.pre[obs.id] = 300
    /\ panic = "invalid toggle value"

\* C30: write_to_device (dsp_set, global_profile_set, output_set) leaves every
\* cached value as it was, whether the acknowledgement arrives or not; a
\* cached value changes only in the store of a getter that received a
\* matching response, and only that of the feature read.
C30_OnlyReadsChangeCache ==
    /\ [](obs.op = "set" => values = obs.pre)
    /\ [][values' # values =>
            /\ th[1].pc = "store"
            /\ th[1].op = "get"
            /\ obs.op = "get"
            /\ obs.rx.kind = "packet"
            /\ Matches("get", th[1].id, obs.rx.pkt)
            /\ \A j \in FeatureId \ {th[1].id} : values'[j] = values[j]]_vars

\* a write of Eq1kHz was acknowledged and the cache still holds the 3.0 read
\* before it
C30_Witness ==
    /\ obs.op = "set"
    /\ obs.id = "Eq1kHz"
    /\ th[1].pc = "idle"
    /\ th[1].log = "ACK received"
    /\ values["Eq1kHz"] = 300
    /\ values = obs.pre

\* the feature a report is about
FeatureOf(pkt) == CHOOSE id \in QueueIds : DspMatch(id, pkt)

LastSeen == hid.seen[Len(hid.seen)]

\* the reports the current operation has read before its last one match none
\* of its address
EarlierDiscarded(id) ==
    \A i \in 1..(Len(hid.seen) - 1) : ~Matches("get", id, hid.seen[i].pkt)

\* C33: the result of a read is the payload of the first report, in the order
\* of arrival, that matches the family and feature bytes of the request; the
\* reports read before it are consumed and never handed to a later read; so a
\* report that answers an earlier query of the same feature is returned and
\* cached, whatever the device holds by then.
C33_FirstMatchInReceiveOrder ==
    /\ th[1].pc = "poll" =>
          \A i \in 1..Len(hid.seen) : ~Matches("get", th[1].id, hid.seen[i].pkt)
    /\ th[1].pc = "store" =>
          /\ hid.seen # <<>>
          /\ th[1].hit = LastSeen.pkt
          /\ Matches("get", th[1].id, LastSeen.pkt)
          /\ EarlierDiscarded(th[1].id)
    /\ (th[1].pc = "idle" /\ th[1].log = "Read") =>
          /\ hid.seen # <<>>
          /\ th[1].ret = LastSeen.pkt.f
          /\ values[FeatureOf(LastSeen.pkt)] = LastSeen.pkt.f
          /\ EarlierDiscarded(FeatureOf(LastSeen.pkt))
    /\ \A i \in 1..Len(hid.rxq) : hid.rxq[i].n \notin hid.taken
    /\ \A i \in 1..Len(hid.seen) :
          /\ hid.seen[i].n \in hid.taken
          /\ \A j \in 1..Len(hid.seen) : i < j => hid.seen[i].n < hid.seen[j].n

\* a read of Eq1kHz has returned and cached 1.0, the answer to an earlier
\* query that timed out, after discarding a report about Eq2kHz, while the
\* device holds 3.0
C33_Witness ==
    /\ th[1].pc = "idle" /\ th[1].log = "Read" /\ th[1].ret = 100
    /\ Len(hid.seen) = 2
    /\ FeatureOf(hid.seen[1].pkt) = "Eq2kHz"
    /\ FeatureOf(LastSeen.pkt) = "Eq1kHz"
    /\ LastSeen.req < hid.op
    /\ hid.device["Eq1kHz"] = 300
    /\ values["Eq1kHz"] = 100

\* C10: while one caller is between its transmission and the end of its
\* polling loop, no other caller has transmitted or is reading.
C10_SingleFlight ==
    \A c, d \in Callers : (c # d /\ InFlight(c)) => ~InFlight(d)

\* ------------------------------------------------------------------------
\* Properties of the cache accesses, two callers

\* C11: every read and every update of a cached value is made by the holder
\* of that value's lock, so two accesses to the same cached value never
\* overlap, and a value read is the value the cache holds at that moment.
C11_AccessUnderLock ==
    /\ \A c \in Callers : th[c].pc = "locked" => lock[th[c].id] = c
    /\ \A c, d \in Callers :
          (c # d /\ th[c].pc = "locked" /\ th[d].pc = "locked") => th[c].id # th[d].id
    /\ \A id \in FeatureId :
          lock[id] # 0 => (th[lock[id]].pc = "locked" /\ th[lock[id]].id = id)

C11_Witness ==
    /\ th[1].pc = "locked" /\ th[1].op = "store" /\ th[1].id = "Eq1kHz"
    /\ th[1].arg = 300
    /\ values["Eq1kHz"] = 100
    /\ th[2].pc = "idle" /\ th[2].log = "value" /\ th[2].ret = 100
    /\ lock["Eq1kHz"] = 1

\* the steps of LocksNext that caller c takes
CallerStep(c) ==
    \/ \E id \in LockIds : LkGet(c, id)
    \/ LkLockTransport(c)
    \/ \E ok \in BOOLEAN : LkWrite(c, ok)
    \/ \E rx \in LockOutcomes : LkRead(c, rx)
    \/ LkLockValue(c)
    \/ LkAssign(c)
    \/ \E id \in LockIds : LockValue(c, "value", id, 0)
    \/ UnlockValue(c)
    \/ \E id \in LockIds, value \in DeserializedValues : LkDeserialize(c, id, value)
    \/ LkDeserialized(c)
    \/ LkClone(c)
    \/ LkCloned(c)

CanStep(c) == ENABLED (CallerStep(c) /\ UNCHANGED <<engineVars, obs, hid, pureVars>>)

\* C37: a caller never holds the guard of DEVICE_CONNECTION together with the
\* guard of a Feature.value, nor two Feature.value guards: it holds at most
\* one guard at any moment, and a caller that has begun an operation can
\* always step, or waits for a guard whose holder can step (no deadlock).
C37_OneGuardAtATime ==
    /\ \A c \in Callers : Cardinality(Held(c)) <= 1
    /\ panic = "none" =>
          \A c \in Callers :
              th[c].pc # "idle" =>
                  \/ CanStep(c)
                  \/ \E d \in Callers \ {c} : Held(d) # {} /\ CanStep(d)

\* caller 1 holds the guard of Eq1kHz for its store while caller 2, inside
\* read_packet, holds DEVICE_CONNECTION
C37_Witness ==
    /\ th[1].pc = "assign" /\ th[1].id = "Eq1kHz"
    /\ Held(1) = {"Eq1kHz"}
    /\ th[2].pc = "read"
    /\ Held(2) = {"DEVICE_CONNECTION"}

\* ------------------------------------------------------------------------
\* Properties of the registries

\* C15: over every pair of the 27 FeatureIds, B is a dependency of A iff A
\* is a dependent of B.
C15_DependencySymmetry ==
    /\ Cardinality(FeatureId) = 27
    /\ reg.registry = "features.rs" =>
          (reg.b \in Elems(reg.dependencies) <=> reg.a \in Elems(reg.dependents))

C15_Witness ==
    /\ reg.registry = "features.rs"
    /\ reg.a = "SurroundDistance"
    /\ reg.b = "SurroundToggle"
    /\ reg.b \in Elems(reg.dependencies)
    /\ reg.a \in Elems(reg.dependents)

\* C16: no feature is among its own dependencies or its own dependents, in
\* FeatureId and in FEATURES.
C16_NoSelfReference ==
    (reg.registry # "none" /\ reg.a = reg.b) =>
        /\ reg.a \notin Elems(reg.dependencies)
        /\ reg.b \notin Elems(reg.dependents)

C16_Witness ==
    /\ reg.registry = "features.rs"
    /\ reg.a = "EqToggle" /\ reg.b = "EqToggle"
    /\ Len(reg.dependencies) = 1
    /\ Len(reg.dependents) = 11

\* C17: the requires relation has no cycle and no chain longer than 2, in
\* FeatureId and in FEATURES; the managed call on any feature of FEATURES
\* returns, with at most two set_feature calls nested for its enables and
\* one write per feature of the chain.
C17_AcyclicDepthTwo ==
    reg.registry # "none" =>
        /\ reg.depth <= 2
        /\ reg.depth < Fuel(reg.registry)
        /\ reg.registry = "lib.rs" =>
              /\ reg.walk = "Ok"
              /\ reg.nest <= 2
              /\ reg.writes = reg.depth + 1

C17_Witness ==
    /\ reg.registry = "lib.rs"
    /\ reg.a = "EQ 1kHz"
    /\ reg.depth = 2
    /\ reg.walk = "Ok"
    /\ reg.nest = 1
    /\ reg.writes = 3

\* ------------------------------------------------------------------------
\* Properties of the packets

\* the 65 bytes of a generic write of the f32 v to the feature byte: report
\* id, 5a 12 07 01 96, the feature byte, v least significant byte first
WriteLayout(byte, v) ==
    [i \in 1..65 |->
        CASE i = 2 -> 90 [] i = 3 -> 18 [] i = 4 -> 7 [] i = 5 -> 1 [] i = 6 -> 150
          [] i = 7 -> byte
          [] i = 8 -> v[4] [] i = 9 -> v[3] [] i = 10 -> v[2] [] i = 11 -> v[1]
          [] OTHER -> 0]

\* the 65 bytes of the query of the feature byte: report id, 5a 11 03 01 96,
\* the feature byte
ReadLayout(byte) ==
    [i \in 1..65 |->
        CASE i = 2 -> 90 [] i = 3 -> 17 [] i = 4 -> 3 [] i = 5 -> 1 [] i = 6 -> 150
          [] i = 7 -> byte
          [] OTHER -> 0]

\* C18 as stated: for every generic feature id and value the write packet
\* carries the value's own four little-endian bytes at offsets 7..10, and
\* the read/commit packet is the query of the same feature; all other bytes
\* are zero.
C18_WritePacketCarriesValue ==
    wire.stage # "none" =>
        /\ wire.data = WriteLayout(wire.byte, wire.value)
        /\ wire.commit = ReadLayout(wire.byte)

\* the f32 whose bytes the write packet carries: create_payload divides by
\* 100.0 unless the id is one of the EQ ids 0x0a..=0x14; dsp_set does not
Carried ==
    IF wire.enc = "create_payload" /\ ~(wire.byte >= 10 /\ wire.byte <= 20)
    THEN DivBy100(wire.value)
    ELSE wire.value

\* C18 amended: the same layout, with the bytes of the value divided by 100.0
\* at offsets 7..10 when create_payload builds the packet for an id outside
\* 0x0a..=0x14.
C18_WritePacketLayout ==
    wire.stage # "none" =>
        /\ Len(wire.data) = 65
        /\ Len(wire.commit) = 65
        /\ wire.data = WriteLayout(wire.byte, Carried)
        /\ wire.commit = ReadLayout(wire.byte)

C18_Witness ==
    /\ wire.enc = "create_payload"
    /\ wire.byte = 7
    /\ wire.value = <<66, 72, 0, 0>>
    /\ SubSeq(wire.data, 1, 12) = <<0, 90, 18, 7, 1, 150, 7, 0, 0, 0, 63, 0>>
    /\ SubSeq(wire.commit, 1, 12) = <<0, 90, 17, 3, 1, 150, 7, 0, 0, 0, 0, 0>>

\* C19: when the device echoes the four value bytes of a generic write in a
\* response for the same family and feature, the read returns and caches the
\* value written, bit for bit.
C19_RoundTrip ==
    wire.stage = "read" =>
        /\ SubSeq(wire.response, 8, 11) = SubSeq(wire.data, 8, 11)
        /\ wire.response[6] = wire.data[6]
        /\ wire.response[7] = wire.data[7]
        /\ wire.ret = wire.value
        /\ wire.cached = wire.value

C19_Witness ==
    /\ wire.stage = "read"
    /\ wire.id = "Eq1kHz"
    /\ wire.value = <<1, 2, 3, 4>>
    /\ SubSeq(wire.response, 1, 11) = <<90, 17, 8, 1, 0, 150, 16, 4, 3, 2, 1>>
    /\ wire.ret = <<1, 2, 3, 4>>
    /\ wire.cached = <<1, 2, 3, 4>>

\* ------------------------------------------------------------------------
\* Properties of the capture decoder (src/sniffer/src/main.rs)

\* the command bytes the grammar has a family for
RecognisedCommands == {2, 5, 6, 7, 16, 17, 18, 21, 32, 38, 44, 48, 57, 58, 60, 108, 110}

\* the grammar's patterns over command byte, declared length and sub-command
\* byte: 0x12 is a seven-byte write; 0x26 is a read (0x08) or a write (0x07);
\* 0x2c and 0x6c carry a direction 0, 1 or 2; 0x39 is set, commit, read or an
\* unsupported sub-command; 0x3c declares two or four bytes; every other
\* family takes any length and sub-command
Recognised(cmd, len, sub) ==
    CASE cmd = 18 -> len = 7
      [] cmd = 38 -> sub \in {7, 8}
      [] cmd = 44 -> sub \in {0, 1, 2}
      [] cmd = 57 -> \/ len = 3 /\ sub = 0
                     \/ len <= 2 /\ sub = 1
                     \/ sub \in {2, 4, 5}
      [] cmd = 60 -> len \in {2, 4}
      [] cmd = 108 -> sub \in {0, 1, 2}
      [] OTHER -> cmd \in RecognisedCommands

\* the captured frame matches no recognised pattern; a frame too short to
\* hold a command byte and a declared length matches none
Unmatched ==
    \/ Len(cap.d) < 3
    \/ ~Recognised(cap.d[2], cap.d[3], g(cap.d, 3))

\* the decoded command is the Unknown variant with the frame's command byte
\* and its raw bytes: the payload after the three header bytes, or the whole
\* frame
UnknownCarriesRaw ==
    /\ cap.out.kind = "SbProtocol"
    /\ cap.out.command.type = "Unknown"
    /\ Len(cap.d) >= 2
    /\ cap.out.command.fields.cmd = hb(cap.d[2])
    /\ cap.out.command.fields.raw \in {hbs(SubSeq(cap.d, 4, Len(cap.d))), hbs(cap.d)}

\* C20, as stated: every captured frame that starts with the magic byte,
\* whatever its length, decodes to a command without a failure or an access
\* outside the buffer, and a frame that matches no recognised pattern decodes
\* to the Unknown variant carrying the raw bytes.
C20_EveryFrameYieldsCommand ==
    cap.stage = "decoded" =>
        /\ ~cap.out.command.panicked
        /\ cap.out.kind = "SbProtocol"
        /\ Unmatched => UnknownCarriesRaw

\* C20, amended: every captured frame that starts with the magic byte,
\* whatever its length and declared length byte, is decoded without a failure
\* or an access outside the buffer; a frame of at least three bytes decodes to
\* a command, which is the Unknown variant carrying the raw bytes when the
\* frame matches no recognised pattern; a frame of one or two bytes decodes to
\* no command but to the Other fragment carrying its raw bytes.
C20_DecoderTotal ==
    cap.stage = "decoded" =>
        /\ cap.d[1] = 90
        /\ ~cap.out.command.panicked
        /\ Len(cap.d) >= 3 =>
              /\ cap.out.kind = "SbProtocol"
              /\ cap.out.command.type # ""
              /\ Unmatched => UnknownCarriesRaw
        /\ Len(cap.d) < 3 =>
              /\ cap.out.kind = "Other"
              /\ cap.out.other = hbs(cap.d)

\* a global-profile frame with the sub-command 0x09, which is neither the read
\* nor the write, has been decoded to Unknown with its four payload bytes
C20_Witness ==
    /\ cap.stage = "decoded"
    /\ cap.d = <<90, 38, 3, 9, 0, 1, 1>>
    /\ cap.out.kind = "SbProtocol"
    /\ cap.out.command.type = "Unknown"
    /\ cap.out.command.fields.cmd = <<"0x", "2", "6">>
    /\ cap.out.command.fields.raw = << <<"0x", "0", "9">>, <<"0x", "0", "0">>,
                                       <<"0x", "0", "1">>, <<"0x", "0", "1">> >>

\* the complete records of stride bytes that fit after the five bytes of
\* header in the frame
Fit(d, stride) == IF Len(d) < 5 THEN 0 ELSE (Len(d) - 5) \div stride

\* C32: decoding the generic write packet the engine transmits for (family,
\* feature id, value v), without the report id, yields WriteSingleFeature
\* with the same family, the same feature id and a value bit-identical to v.
C32_DecoderAgreesWithEncoder ==
    (wire.stage = "written" /\ wire.enc \in {"dsp_set", "create_payload"}) =>
        /\ wire.decoded.type = "WriteSingleFeature"
        /\ wire.decoded.fields.feature.family = hb(wire.data[6])
        /\ wire.decoded.fields.feature.name =
              (IF wire.data[6] = 150 THEN dsp_feature_name(wire.byte)
               ELSE <<"id_">> \o hb(wire.byte))
        /\ wire.decoded.fields.feature.value =
              <<from_le_bytes(SubSeq(wire.data, 8, 11))>>

\* the command families with a request and a response form: command byte,
\* request length, request variant, response variant
RequestForms == <<
    <<5,  0, "DeviceIdentifyRequest",    "DeviceIdentifyResponse">>,
    <<7,  1, "GetFirmwareStringRequest", "GetFirmwareStringResponse">>,
    <<16, 0, "GetSerialRequest",         "GetSerialResponse">>,
    <<17, 3, "StatusRequest",            "StatusResponse">>,
    <<21, 1, "BulkRangeDumpRequest",     "BulkRangeDump">>,
    <<32, 0, "GetHardwareIdRequest",     "GetHardwareIdResponse">>,
    <<48, 0, "GetDspVersionRequest",     "GetDspVersionResponse">> >>

\* C36: for the command families 0x05, 0x07, 0x10, 0x11, 0x15, 0x20 and 0x30 the
\* decoder yields the request variant exactly when the declared length is the
\* request length and the response variant whenever the declared length
\* exceeds it, whatever the payload bytes and the length of the frame are.
C36_RequestOrResponseByLength ==
    (cap.stage = "decoded" /\ Len(cap.d) >= 3 /\ cap.d[1] = 90) =>
        \A i \in 1..Len(RequestForms) :
            cap.d[2] = RequestForms[i][1] =>
                /\ cap.out.kind = "SbProtocol"
                /\ cap.out.command.type \in {RequestForms[i][3], RequestForms[i][4]}
                /\ cap.out.command.type = RequestForms[i][3]
                        <=> cap.d[3] = RequestForms[i][2]
                /\ cap.d[3] > RequestForms[i][2]
                        => cap.out.command.type = RequestForms[i][4]

\* a status frame of declared length 8 whose payload looks like a request's
\* (sub-command 1, family 0x96) has been decoded as a response
C36_Witness ==
    /\ cap.stage = "decoded"
    /\ Len(cap.d) = 6
    /\ cap.d[2] = 17
    /\ cap.d[3] = 8
    /\ cap.d[4] = 1
    /\ cap.d[5] = 150
    /\ cap.out.command.type = "StatusResponse"

\* C39: no two distinct features share a (family, feature byte) pair, in
\* FeatureId::dsp_address and in FEATURES, so the response that dsp_get accepts
\* for one feature is accepted for no other.
C39_AddressInjective ==
    (reg.registry # "none" /\ reg.address.some) =>
        /\ (reg.a # reg.b /\ reg.address_b.some) => reg.address # reg.address_b
        /\ reg.registry = "features.rs" =>
              (DspMatch(reg.b, Resp(90, 17, 0, reg.address.family,
                                    reg.address.feature_id, 0))
                  <=> reg.b = reg.a)

\* Eq1kHz (0x96, 0x10) and SurroundToggle (0x96, 0x00) have been compared
C39_Witness ==
    /\ reg.registry = "features.rs"
    /\ reg.a = "Eq1kHz"
    /\ reg.b = "SurroundToggle"
    /\ reg.address = Some(150, 16)
    /\ reg.address_b = Some(150, 0)

\* C40: all_features holds exactly one Feature for each FeatureId of ALL and
\* nothing else, each with the value NaN, and a Feature has the generic DSP
\* getter and setter if and only if its dsp_address is present.
C40_RegistryMatchesAll ==
    /\ Len(AllFeaturesVec) = Len(ALL)
    /\ reg.registry = "features.rs" =>
          /\ Len(reg.entries) = 1
          /\ reg.entries[1].value = NaN
          /\ all_features[reg.a] = reg.entries[1].value
          /\ reg.entries[1].getter = "dsp_get" <=> reg.address.some
          /\ reg.entries[1].setter = "dsp_set" <=> reg.address.some
          /\ Scheme(reg.a) = "dsp" <=> reg.entries[1].getter = "dsp_get"

\* the registry entry of Output, which has no address, has been looked up
C40_Witness ==
    /\ reg.registry = "features.rs"
    /\ reg.a = "Output"
    /\ ~reg.address.some
    /\ Len(reg.entries) = 1
    /\ reg.entries[1].getter = "output_get"
    /\ reg.entries[1].value = NaN

\* C21: a decoded bulk response was read without an access outside the
\* buffer and holds exactly min(declared count, complete records that fit
\* after the 5-byte header) records, 14 bytes each for a range dump (0x15)
\* and 6 bytes each for a status dump (0x11), record k taken from offset
\* 5 + stride * (k - 1); a trailing partial record is dropped.
C21_BulkRecordCount ==
    cap.stage = "decoded" =>
        /\ cap.out.command.type = "BulkRangeDump" =>
              LET entries == cap.out.command.fields.entries
              IN  /\ ~cap.out.command.panicked
                  /\ Len(entries) = Min(g(cap.d, 4), Fit(cap.d, 14))
                  /\ \A k \in 1..Len(entries) :
                        /\ entries[k].family = hb(cap.d[5 + 14 * (k - 1) + 1])
                        /\ entries[k].step =
                              from_le_bytes(SubSeq(cap.d, 5 + 14 * (k - 1) + 11,
                                                   5 + 14 * k))
        /\ cap.out.command.type = "StatusResponse" =>
              LET features_ == cap.out.command.fields.features
              IN  /\ ~cap.out.command.panicked
                  /\ Len(features_) = Min(g(cap.d, 3), Fit(cap.d, 6))
                  /\ \A k \in 1..Len(features_) :
                        /\ features_[k].family = hb(cap.d[5 + 6 * (k - 1) + 1])
                        /\ features_[k].value =
                              <<from_le_bytes(SubSeq(cap.d, 5 + 6 * (k - 1) + 3,
                                                     5 + 6 * k))>>

\* a range dump that declares 150 records in a frame of 32 bytes, which holds
\* one complete record and 13 bytes of a second, has been decoded to one record
C21_Witness ==
    /\ cap.stage = "decoded"
    /\ Len(cap.d) = 32
    /\ cap.d[2] = 21
    /\ cap.d[3] = 8
    /\ cap.d[5] = 150
    /\ cap.out.command.type = "BulkRangeDump"
    /\ Len(cap.out.command.fields.entries) = 1
    /\ ~cap.out.command.panicked

\* bit k of a byte
Bit(byte, k) == (byte \div (2 ^ k)) % 2 = 1

C23_ProfileBits ==
    (wire.stage = "read" /\ wire.enc = "global_profile_get") =>
        /\ wire.response[3] # 3 =>
              /\ wire.decoded.type = "GlobalProfileResponse"
              /\ wire.decoded.fields.sbx_master = Bit(wire.response[7], 0)
              /\ wire.decoded.fields.scout_mode = Bit(wire.response[7], 1)
              /\ wire.decoded.fields.eq_enable = Bit(wire.response[7], 2)
        /\ wire.cached =
              IF Bit(wire.response[7], IF wire.id = "SbxMaster" THEN 0 ELSE 1)
              THEN 100 ELSE 0
        /\ wire.ret = wire.cached

\* the response 5a 26 0b 08 ff ff 05 has been decoded to master and equalizer
\* set and scout mode clear, and the live read of ScoutMode cached 0.0
C23_Witness ==
    /\ wire.stage = "read"
    /\ wire.enc = "global_profile_get"
    /\ wire.id = "ScoutMode"
    /\ SubSeq(wire.response, 1, 7) = <<90, 38, 11, 8, 255, 255, 5>>
    /\ wire.decoded.type = "GlobalProfileResponse"
    /\ wire.decoded.fields =
          [sbx_master |-> TRUE, scout_mode |-> FALSE, eq_enable |-> TRUE]
    /\ wire.cached = 0

\* C28: an output write transmits direction byte 0x00 and route code 0x02
\* for speakers (0.0) or 0x04 for headphones (1.0); an output read maps route
\* code 0x02 to speakers and 0x04 to headphones, in the getter's result and in
\* the decoder's, and any other route code is preserved in both results.
C28_OutputRouteCodes ==
    /\ (wire.stage = "written" /\ wire.enc = "output_set") =>
          /\ SubSeq(wire.data, 1, 5) = <<0, 90, 44, 5, 0>>
          /\ wire.value = 0 => wire.data[6] = 2
          /\ wire.value = 100 => wire.data[6] = 4
          /\ wire.decoded.type = "OutputSelectWrite"
    /\ (wire.stage = "read" /\ wire.enc = "output_get") =>
          /\ wire.decoded.type = "OutputSelectReadResponse"
          /\ wire.byte = 2 =>
                wire.ret = 0 /\ wire.decoded.fields.output = <<"Speakers">>
          /\ wire.byte = 4 =>
                wire.ret = 100 /\ wire.decoded.fields.output = <<"Headphones">>
          /\ wire.byte \notin {2, 4} =>
                /\ wire.decoded.fields.output = hb(wire.byte)
                /\ wire.ret = wire.byte
                /\ wire.cached = wire.byte

\* ------------------------------------------------------------------------

Init ==
    /\ features = InitialFeatures
    /\ sent = <<>>
    /\ last = NoCall
    /\ values = all_features
    /\ th = [c \in Callers |-> Idle(0, "")]
    /\ panic = "none"
    /\ obs = NoObs
    /\ lock = [m \in Mutexes |-> 0]
    /\ hid = NoTraffic
    /\ reg = NoQuery
    /\ wire = NoWire
    /\ cap = NoCapture

Next == (SetFeatureCall \/ SetSliderCall) /\ UNCHANGED <<ioVars, pureVars>>

Spec == Init /\ [][Next]_vars

SpecQuiet == Init /\ [][QuietNext]_vars

SpecBand == Init /\ [][BandNext]_vars

SpecReset == Init /\ [][ResetNext]_vars

SpecIO == Init /\ [][IoNext]_vars

SpecQueue == Init /\ [][QueueNext]_vars

SpecConc == Init /\ [][ConcNext]_vars

SpecCache == Init /\ [][CacheNext]_vars

SpecLocks == Init /\ [][LocksNext]_vars

SpecRegistry == Init /\ [][RegistryNext]_vars

SpecWire == Init /\ [][WireNext]_vars

SpecSniffer == Init /\ [][SnifferNext]_vars

SpecCodes == Init /\ [][CodesNext]_vars

====
